---- MODULE Spec2Model ----
(***************************************************************************)
(* usd-opinion-trace: the extract -> diagnose -> output pipeline of        *)
(* src/src/opinion_trace (extraction.py, diagnosis.py, reason_codes.py,    *)
(* cli.py), as a state machine over the answers of the composition engine. *)
(***************************************************************************)
EXTENDS Integers, Sequences, FiniteSets, TLC

\* ------------------------------------------------------------------------
\* Bounds of the model
\* ------------------------------------------------------------------------

\* Longest property stack (and opinion list) that is explored.
MaxOpinions == 2

\* ------------------------------------------------------------------------
\* Python values
\* ------------------------------------------------------------------------

\* Optional values (T | None): None is the empty set, a present value v is {v}.
None == {}
Some(v) == {v}
IsSome(o) == o # {}
The(o) == CHOOSE v \in o : TRUE

\* dict.get(key, default) on a dict modelled as a function.
DictGet(d, key, default) == IF key \in DOMAIN d THEN d[key] ELSE default

\* The empty dict {}.
EmptyDict == [k \in {} |-> k]

\* The marker class of an explicit value block, Sdf.ValueBlock.
ValueBlock == "Sdf.ValueBlock"

\* An authored (non-block) attribute value.
AuthoredValue == "2.0"

\* isinstance(value, type(Sdf.ValueBlock())) on an optional value.
IsValueBlock(value) == IsSome(value) /\ The(value) = ValueBlock

\* ------------------------------------------------------------------------
\* Layers
\* ------------------------------------------------------------------------

\* Layer identifiers of the scene; two of them share a display name.
LayerIds == {"/shot/look.usda", "/asset/look.usda", "/shot/anim.usda"}

\* os.path.basename(spec.layer.identifier)
basename(identifier) ==
  CASE identifier = "/shot/look.usda"  -> "look.usda"
    [] identifier = "/asset/look.usda" -> "look.usda"
    [] identifier = "/shot/anim.usda"  -> "anim.usda"
    [] OTHER -> identifier

\* ------------------------------------------------------------------------
\* Arc kinds
\* ------------------------------------------------------------------------

\* The arc-kind strings arc_type_to_string and get_arc_type_for_spec emit.
ArcStrings ==
  {"Local", "Inherit", "Variant", "Relocate", "Reference", "Payload",
   "Specialize", "Unknown"}

\* str.lower() on the arc-kind strings.
lower(s) ==
  CASE s = "Local"      -> "local"
    [] s = "Inherit"    -> "inherit"
    [] s = "Variant"    -> "variant"
    [] s = "Relocate"   -> "relocate"
    [] s = "Reference"  -> "reference"
    [] s = "Payload"    -> "payload"
    [] s = "Specialize" -> "specialize"
    [] s = "Unknown"    -> "unknown"
    [] OTHER -> s

\* str.title() on the keys of arc_descriptions.
title(s) ==
  CASE s = "local"      -> "Local"
    [] s = "inherit"    -> "Inherit"
    [] s = "variant"    -> "Variant"
    [] s = "relocate"   -> "Relocate"
    [] s = "reference"  -> "Reference"
    [] s = "payload"    -> "Payload"
    [] s = "specialize" -> "Specialize"
    [] OTHER -> s

\* ------------------------------------------------------------------------
\* reason_codes.py: the registry
\* ------------------------------------------------------------------------

REASON_CODES ==
     ("arc_type_local_over_inherit" :>
      [arc_descriptions |-> <<
          [arc |-> "local", desc |-> "change just this one tree's color to red (instance-specific edits)"],
          [arc |-> "inherit", desc |-> "make all pine trees in the forest darker (mass-editing a category)"] >>,
       scenarios |-> <<
          [condition |-> "this specific instance to be different from the class",
           action |-> "keep the Local edit - this is working as intended"],
          [condition |-> "all instances including this one to follow the class rules",
           action |-> "remove the Local edit and let the Inherit control it"],
          [condition |-> "to make changes to all objects of this type",
           action |-> "edit the Inherit class itself instead of making Local overrides on each instance"] >>])
  @@ ("arc_type_local_over_variant" :>
      [arc_descriptions |-> <<
          [arc |-> "local", desc |-> "force this asset to always use the red material (fixed instance settings)"],
          [arc |-> "variant", desc |-> "let users switch between red/blue/green materials (switchable options)"] >>,
       scenarios |-> <<
          [condition |-> "this instance locked to a specific look regardless of variant selection",
           action |-> "keep the Local edit - it will always override the variant"],
          [condition |-> "the variant switching to work on this instance",
           action |-> "remove the Local edit and let the Variant control the property"],
          [condition |-> "to change what a variant option looks like for all instances",
           action |-> "edit within the Variant definition itself rather than overriding locally"] >>])
  @@ ("arc_type_local_over_reference" :>
      [arc_descriptions |-> <<
          [arc |-> "local", desc |-> "adjust this imported chair to be 10% bigger in my scene (scene-specific tweaks)"],
          [arc |-> "reference", desc |-> "bring in the chair_model.usd asset (importing external content)"] >>,
       scenarios |-> <<
          [condition |-> "scene-specific adjustments to this Referenced asset",
           action |-> "keep the Local edit - this is the correct workflow"],
          [condition |-> "the change to affect the asset everywhere it's used",
           action |-> "edit the source Referenced file instead of overriding locally"],
          [condition |-> "the Referenced asset to work exactly as authored",
           action |-> "remove the Local override and use the asset as-is"] >>])
  @@ ("arc_type_local_over_payload" :>
      [arc_descriptions |-> <<
          [arc |-> "local", desc |-> "make this heavy building visible/invisible in my scene (scene-level control)"],
          [arc |-> "payload", desc |-> "load this 50GB city block only when needed (deferred loading of heavy content)"] >>,
       scenarios |-> <<
          [condition |-> "to override properties of this heavy asset in your scene",
           action |-> "keep the Local edit - Payloads are meant to be overridden locally"],
          [condition |-> "the Payload to load with its original settings",
           action |-> "remove the Local edit and let the Payload define the defaults"],
          [condition |-> "better performance by not loading heavy data",
           action |-> "unload the Payload rather than trying to override it locally"] >>])
  @@ ("arc_type_local_over_specialize" :>
      [arc_descriptions |-> <<
          [arc |-> "local", desc |-> "this specific material should be glossy=0.8 (explicit values)"],
          [arc |-> "specialize", desc |-> "if nothing else is set, use glossy=0.5 as the default (fallback values)"] >>,
       scenarios |-> <<
          [condition |-> "an explicit value on this instance",
           action |-> "keep the Local edit - Specializes are designed to be overridden"],
          [condition |-> "to use the fallback default value",
           action |-> "remove the Local edit and let the Specialize provide it"],
          [condition |-> "to change the default for all objects that use it",
           action |-> "edit the Specialize source instead of overriding each instance locally"] >>])
  @@ ("arc_type_local_over_relocate" :>
      [arc_descriptions |-> <<
          [arc |-> "local", desc |-> "direct edits in your current layer (strongest opinions)"],
          [arc |-> "relocate", desc |-> "move/redirect prim paths during composition"] >>,
       scenarios |-> <<
          [condition |-> "to override the relocated prim's properties",
           action |-> "keep the Local edit - it will override the Relocate"],
          [condition |-> "the Relocate to work as intended",
           action |-> "remove conflicting Local edits"] >>])
  @@ ("arc_type_inherit_over_variant" :>
      [arc_descriptions |-> <<
          [arc |-> "inherit", desc |-> "make all cars in the scene have chrome wheels (mass-edit across types)"],
          [arc |-> "variant", desc |-> "this car can switch between sport/luxury/economy versions (switchable configurations)"] >>,
       scenarios |-> <<
          [condition |-> "to enforce a property across all instances regardless of variant choice",
           action |-> "keep the Inherit - it's overriding variants intentionally"],
          [condition |-> "variants to control the look independently per instance",
           action |-> "remove the Inherit or restructure so Inherit and Variants affect different properties"],
          [condition |-> "each variant to have different inherited behavior",
           action |-> "create separate Inherit classes for each variant rather than one Inherit overriding all variants"] >>])
  @@ ("arc_type_inherit_over_reference" :>
      [arc_descriptions |-> <<
          [arc |-> "inherit", desc |-> "make all pine trees in the forest 10% darker (mass-editing a category of objects)"],
          [arc |-> "reference", desc |-> "bring the hero_pine_tree.usd asset into this scene (importing specific assets)"] >>,
       scenarios |-> <<
          [condition |-> "to use this specific Referenced asset with its own unique properties",
           action |-> "remove the Inherit or move your Reference to a different part of the hierarchy where the Inherit doesn't apply"],
          [condition |-> "all objects of this type to follow the same class rules consistently",
           action |-> "keep the Inherit and remove the Reference - the Inherit is doing its job by enforcing consistency"],
          [condition |-> "to combine both (use the class template but add specific details from a Reference)",
           action |-> "restructure your setup: put the Reference under a child prim, or make sure the Inherit and Reference affect different properties, or use Variants within the inherited class instead"],
          [condition |-> "to make just this one instance different from the class",
           action |-> "remove the Inherit from this instance and add a Local override instead - the Reference can then work as intended"] >>])
  @@ ("arc_type_inherit_over_payload" :>
      [arc_descriptions |-> <<
          [arc |-> "inherit", desc |-> "all buildings should have this lighting rig (mass-applying properties to categories)"],
          [arc |-> "payload", desc |-> "load this detailed building model only when working on it (deferred loading)"] >>,
       scenarios |-> <<
          [condition |-> "to apply consistent properties to all Payload instances without loading them",
           action |-> "keep the Inherit - this is a powerful optimization pattern"],
          [condition |-> "the Payload's authored data to control the instance",
           action |-> "remove the Inherit or make it affect different properties"],
          [condition |-> "to mass-edit Payload instances while keeping them unloaded",
           action |-> "use Inherits on the Payload wrapper prims - this lets you control visibility, transforms, etc. without loading heavy geometry"] >>])
  @@ ("arc_type_inherit_over_specialize" :>
      [arc_descriptions |-> <<
          [arc |-> "inherit", desc |-> "all metal materials get roughness=0.2 (active mass-edits)"],
          [arc |-> "specialize", desc |-> "if no one sets roughness, default to 0.5 (passive fallbacks)"] >>,
       scenarios |-> <<
          [condition |-> "to actively enforce a value across all instances",
           action |-> "keep the Inherit - it's designed to override Specializes"],
          [condition |-> "Specializes to provide the default",
           action |-> "remove the Inherit - but note that Specializes are meant to be overridden by stronger arcs"],
          [condition |-> "different defaults for different categories",
           action |-> "use Inherits to define category-specific rules rather than relying on Specializes alone"] >>])
  @@ ("arc_type_inherit_over_relocate" :>
      [arc_descriptions |-> <<
          [arc |-> "inherit", desc |-> "mass-edit all objects of a type (class-based changes)"],
          [arc |-> "relocate", desc |-> "move/redirect prim paths during composition"] >>,
       scenarios |-> <<
          [condition |-> "class-based edits to apply to relocated prims",
           action |-> "keep the Inherit - it will apply after relocation"],
          [condition |-> "the Relocate to work without inherited overrides",
           action |-> "remove the Inherit or ensure it targets different properties"] >>])
  @@ ("arc_type_variant_over_reference" :>
      [arc_descriptions |-> <<
          [arc |-> "variant", desc |-> "switch this prop between damaged/pristine versions (selectable options within an asset)"],
          [arc |-> "reference", desc |-> "bring in the prop_base.usd asset (importing the asset foundation)"] >>,
       scenarios |-> <<
          [condition |-> "the variant selection to control what's visible",
           action |-> "keep the Variant - variants often contain References inside them"],
          [condition |-> "the Reference to always contribute regardless of variant",
           action |-> "move the Reference outside/above the Variant in the hierarchy"],
          [condition |-> "different References for each variant option",
           action |-> "put References inside each variant definition - this is a common pattern for LOD switching"] >>])
  @@ ("arc_type_variant_over_payload" :>
      [arc_descriptions |-> <<
          [arc |-> "variant", desc |-> "switch between summer/winter/fall versions of this landscape (seasonal variants)"],
          [arc |-> "payload", desc |-> "defer loading the heavy landscape geometry (performance management)"] >>,
       scenarios |-> <<
          [condition |-> "to switch between different heavy assets efficiently",
           action |-> "put Payloads inside each Variant option - users can switch variants without loading all options"],
          [condition |-> "the Payload to always load regardless of variant",
           action |-> "place the Payload outside the Variant in the hierarchy"],
          [condition |-> "variant switching without loading heavy data",
           action |-> "use Variants that contain different Payload references - this is the recommended pattern for LOD variants"] >>])
  @@ ("arc_type_variant_over_specialize" :>
      [arc_descriptions |-> <<
          [arc |-> "variant", desc |-> "switch this character between child/teen/adult body types (distinct options)"],
          [arc |-> "specialize", desc |-> "if no body type is chosen, default to adult (fallback)"] >>,
       scenarios |-> <<
          [condition |-> "explicit variant control",
           action |-> "keep the Variant - it's designed to override Specializes"],
          [condition |-> "the Specialize fallback to work",
           action |-> "remove the Variant or ensure variants don't define the same properties"],
          [condition |-> "variants with smart defaults",
           action |-> "use Specializes to set base values, then Variants to offer explicit choices - they work well together"] >>])
  @@ ("arc_type_variant_over_relocate" :>
      [arc_descriptions |-> <<
          [arc |-> "variant", desc |-> "switch between different options (selectable configurations)"],
          [arc |-> "relocate", desc |-> "move/redirect prim paths during composition"] >>,
       scenarios |-> <<
          [condition |-> "variant selection to control relocated paths",
           action |-> "keep the Variant - it can control what gets relocated"],
          [condition |-> "the Relocate to work independently of variants",
           action |-> "move the Relocate outside the Variant scope"] >>])
  @@ ("arc_type_relocate_over_reference" :>
      [arc_descriptions |-> <<
          [arc |-> "relocate", desc |-> "move/redirect prim paths during composition"],
          [arc |-> "reference", desc |-> "bring in external assets"] >>,
       scenarios |-> <<
          [condition |-> "to redirect where Referenced content appears",
           action |-> "keep the Relocate - it will move the Reference target"],
          [condition |-> "the Reference to appear at its original location",
           action |-> "remove the Relocate"] >>])
  @@ ("arc_type_relocate_over_payload" :>
      [arc_descriptions |-> <<
          [arc |-> "relocate", desc |-> "move/redirect prim paths during composition"],
          [arc |-> "payload", desc |-> "defer loading of heavy content"] >>,
       scenarios |-> <<
          [condition |-> "to redirect where Payload content loads",
           action |-> "keep the Relocate - it will move the Payload target"],
          [condition |-> "the Payload to load at its original location",
           action |-> "remove the Relocate"] >>])
  @@ ("arc_type_relocate_over_specialize" :>
      [arc_descriptions |-> <<
          [arc |-> "relocate", desc |-> "move/redirect prim paths during composition"],
          [arc |-> "specialize", desc |-> "provide fallback default values"] >>,
       scenarios |-> <<
          [condition |-> "to redirect specialized content",
           action |-> "keep the Relocate"],
          [condition |-> "Specializes to work at original paths",
           action |-> "remove the Relocate or adjust the path mapping"] >>])
  @@ ("arc_type_reference_over_payload" :>
      [arc_descriptions |-> <<
          [arc |-> "reference", desc |-> "bring in the building_exterior.usd (always-loaded modular content)"],
          [arc |-> "payload", desc |-> "defer loading building_interior.usd until needed (optional heavy content)"] >>,
       scenarios |-> <<
          [condition |-> "the lightweight exterior always loaded and interior optionally loaded",
           action |-> "use Reference for exterior, Payload for interior - this is the standard pattern"],
          [condition |-> "both to be deferrable",
           action |-> "convert the Reference to a Payload so users can choose what to load"],
          [condition |-> "the Payload's data to be accessible",
           action |-> "remove the blocking Reference or ensure they target different parts of the namespace"],
          [condition |-> "to see what's preventing your Payload from working",
           action |-> "check if a Reference is already bringing in similar data and causing a conflict"] >>])
  @@ ("arc_type_reference_over_specialize" :>
      [arc_descriptions |-> <<
          [arc |-> "reference", desc |-> "bring in the metal_shader.usd asset (explicit asset inclusion)"],
          [arc |-> "specialize", desc |-> "if no shader is assigned, use default_gray.usd (fallback)"] >>,
       scenarios |-> <<
          [condition |-> "a specific shader assigned",
           action |-> "keep the Reference - it's designed to override Specializes"],
          [condition |-> "to rely on the fallback",
           action |-> "remove the Reference and let Specializes provide the default"],
          [condition |-> "References with smart fallbacks",
           action |-> "use Specializes for defaults and References for explicit assignments - this is a good pattern for optional overrides"] >>])
  @@ ("arc_type_payload_over_specialize" :>
      [arc_descriptions |-> <<
          [arc |-> "payload", desc |-> "load this heavy asset when needed (deferred loading of substantial content)"],
          [arc |-> "specialize", desc |-> "use these fallback values if nothing else is set (defaults)"] >>,
       scenarios |-> <<
          [condition |-> "the Payload's data to define the asset",
           action |-> "keep the Payload - it should override Specializes"],
          [condition |-> "defaults before the Payload loads",
           action |-> "use Specializes to set preview/proxy values that show until the full Payload is loaded"],
          [condition |-> "smart loading",
           action |-> "Specializes can provide lightweight placeholders while Payloads bring in full detail - this is useful for progressive loading"] >>])
  @@ ("sublayer_order" :>
      [detail |-> "Both opinions are in Local arc; blocker is higher in sublayer stack",
       scenarios |-> <<
          [condition |-> "your edit to win",
           action |-> "move your layer to a stronger position in sublayer stack"],
          [condition |-> "the current opinion to remain",
           action |-> "keep the sublayer order as-is"],
          [condition |-> "to reorganize layers",
           action |-> "reorder sublayers using subLayerPaths"] >>])
  @@ ("direct_over_ancestral" :>
      [detail |-> "Direct arc opinion beats ancestral arc opinion",
       scenarios |-> <<
          [condition |-> "your edit to take priority",
           action |-> "author opinion on direct arc at this prim"],
          [condition |-> "the ancestral opinion to apply",
           action |-> "remove the direct arc opinion"],
          [condition |-> "to make the ancestral opinion direct",
           action |-> "promote ancestral opinion to direct arc on this prim"] >>])
  @@ ("listop_position" :>
      [detail |-> "Earlier position in arc list wins (prepend vs append order)",
       scenarios |-> <<
          [condition |-> "your arc to take priority",
           action |-> "use prepend instead of append for arc composition"],
          [condition |-> "different arc ordering",
           action |-> "reorder arcs in composition list"],
          [condition |-> "your opinion to win",
           action |-> "author opinion in earlier arc"] >>])
  @@ ("layer_muted" :>
      [detail |-> "User layer is muted; opinions ignored by stage",
       scenarios |-> <<
          [condition |-> "this layer's opinions to be active",
           action |-> "unmute layer via stage.UnmuteLayer(layer_identifier)"],
          [condition |-> "to see which layers are muted",
           action |-> "check GetMutedLayers() for active mutes"],
          [condition |-> "to keep the layer muted",
           action |-> "no action needed - layer will remain muted"] >>])
  @@ ("payload_not_loaded" :>
      [detail |-> "Prim's payload is not loaded; opinions inside are inaccessible",
       scenarios |-> <<
          [condition |-> "to access the Payload's opinions",
           action |-> "load payload via stage.Load(prim_path)"],
          [condition |-> "all payloads loaded by default",
           action |-> "set LoadAll policy when opening stage"],
          [condition |-> "to check loading configuration",
           action |-> "check GetLoadRules() for current loading rules"],
          [condition |-> "to keep the Payload unloaded for performance",
           action |-> "no action needed - this is working as intended"] >>])
  @@ ("attribute_blocked" :>
      [detail |-> "Attribute has explicit value block (Sdf.ValueBlock)",
       scenarios |-> <<
          [condition |-> "this attribute to have a value",
           action |-> "remove the blocking opinion from winning layer"],
          [condition |-> "to override the block",
           action |-> "author opinion with stronger arc type or in stronger sublayer"],
          [condition |-> "to verify the block is intentional",
           action |-> "check if attribute blocking is intentional for this workflow"] >>])
  @@ ("animation_blocked" :>
      [detail |-> "Animation/timeSamples are blocked at this time",
       scenarios |-> <<
          [condition |-> "animation to work",
           action |-> "remove animation block from stronger layer"],
          [condition |-> "to use static values",
           action |-> "use default value instead of timeSamples"],
          [condition |-> "to investigate the block",
           action |-> "check timeSample blocking at specific time codes"] >>])
  @@ ("timesamples_over_default" :>
      [detail |-> "TimeSamples in same spec override default value",
       scenarios |-> <<
          [condition |-> "time-varying animation",
           action |-> "keep timeSamples - this is working as intended"],
          [condition |-> "static values",
           action |-> "clear timeSamples to use default value"],
          [condition |-> "to verify animation data",
           action |-> "check for unintended animation data that might be overriding defaults"] >>])
  @@ ("no_opinion_in_user_layer" :>
      [detail |-> "Specified user layer has no opinion for this attribute",
       scenarios |-> <<
          [condition |-> "to add an opinion in this layer",
           action |-> "author an opinion in your layer"],
          [condition |-> "to verify layer setup",
           action |-> "verify correct layer identifier and check if layer is part of stage composition"] >>])
  @@ ("user_opinion_is_winning" :>
      [detail |-> "User's opinion is already the winning opinion",
       scenarios |-> <<>>])

\* "reason_code in REASON_CODES"
IsRegistered(reason_code) == reason_code \in DOMAIN REASON_CODES

\* separator.join(parts)
RECURSIVE join(_, _)
join(separator, parts) ==
  IF parts = << >> THEN ""
  ELSE IF Len(parts) = 1 THEN parts[1]
  ELSE parts[1] \o separator \o join(separator, Tail(parts))

get_arc_descriptions(reason_code) ==
  DictGet(DictGet(REASON_CODES, reason_code, EmptyDict),
          "arc_descriptions", << >>)

get_detail(reason_code) ==
  DictGet(DictGet(REASON_CODES, reason_code, EmptyDict), "detail", "")

get_scenarios(reason_code) ==
  DictGet(DictGet(REASON_CODES, reason_code, EmptyDict), "scenarios", << >>)

\* [f"{arc.title()} is for: {desc}" for arc, desc in arc_descs.items()]
RECURSIVE arc_parts(_)
arc_parts(arc_descs) ==
  IF arc_descs = << >> THEN << >>
  ELSE << title(Head(arc_descs).arc) \o " is for: " \o Head(arc_descs).desc >>
       \o arc_parts(Tail(arc_descs))

\* Mutant of get_reason_detail: an unregistered code is echoed as its own
\* detail.
get_reason_detail_echo(reason_code) ==
  LET code_data == DictGet(REASON_CODES, reason_code, EmptyDict)
      arc_descs == DictGet(code_data, "arc_descriptions", << >>)
  IN IF "detail" \in DOMAIN code_data THEN code_data["detail"]
     ELSE IF arc_descs # << >> THEN join(" | ", arc_parts(arc_descs))
     ELSE reason_code

get_reason_detail(reason_code) ==
  LET code_data == DictGet(REASON_CODES, reason_code, EmptyDict)
      arc_descs == DictGet(code_data, "arc_descriptions", << >>)
  IN IF "detail" \in DOMAIN code_data THEN code_data["detail"]
     ELSE IF arc_descs # << >> THEN join(" | ", arc_parts(arc_descs))
     ELSE ""

\* The loop of get_suggestions over the scenarios.
RECURSIVE scenario_suggestions(_)
scenario_suggestions(scenarios) ==
  IF scenarios = << >> THEN << >>
  ELSE LET condition == DictGet(Head(scenarios), "condition", "")
           action    == DictGet(Head(scenarios), "action", "")
       IN (IF condition # "" /\ action # ""
           THEN << "If you want " \o condition \o ": " \o action >>
           ELSE << >>)
          \o scenario_suggestions(Tail(scenarios))

get_suggestions(reason_code) ==
  LET code_data == DictGet(REASON_CODES, reason_code, EmptyDict)
      scenarios == DictGet(code_data, "scenarios", << >>)
  IN IF "suggestions" \in DOMAIN code_data THEN code_data["suggestions"]
     ELSE scenario_suggestions(scenarios)

\* ------------------------------------------------------------------------
\* diagnosis.py
\* ------------------------------------------------------------------------

DiagnosisResult(user_layer_found, user_layer_index, blocker_index, blocker_layer, reason, reason_detail, suggestions) ==
  [user_layer_found |-> user_layer_found,
   user_layer_index |-> user_layer_index,
   blocker_index    |-> blocker_index,
   blocker_layer    |-> blocker_layer,
   reason           |-> reason,
   reason_detail    |-> reason_detail,
   suggestions      |-> suggestions]

\* Mutant of find_user_opinion: the membership test is dropped, the first
\* opinion is returned whatever its layer.
find_user_opinion_any(opinions, user_layer) ==
  IF opinions = << >> THEN None ELSE Some(Head(opinions))

\* Mutant of find_user_opinion: the scan keeps the last match, not the first.
RECURSIVE find_user_opinion_last(_, _)
find_user_opinion_last(opinions, user_layer) ==
  IF opinions = << >> THEN None
  ELSE LET later == find_user_opinion_last(Tail(opinions), user_layer)
       IN IF IsSome(later) THEN later
          ELSE IF user_layer \in {Head(opinions).layer_identifier,
                                  Head(opinions).layer_name}
               THEN Some(Head(opinions))
               ELSE None

\* Mutant of find_user_opinion: only the full layer identifier is compared.
RECURSIVE find_user_opinion_identifier_only(_, _)
find_user_opinion_identifier_only(opinions, user_layer) ==
  IF opinions = << >> THEN None
  ELSE IF user_layer = Head(opinions).layer_identifier
       THEN Some(Head(opinions))
       ELSE find_user_opinion_identifier_only(Tail(opinions), user_layer)

RECURSIVE find_user_opinion(_, _)
find_user_opinion(opinions, user_layer) ==
  IF opinions = << >> THEN None
  ELSE IF user_layer \in {Head(opinions).layer_identifier, Head(opinions).layer_name}
       THEN Some(Head(opinions))
       ELSE find_user_opinion(Tail(opinions), user_layer)

\* Mutant of _check_layer_muted: any flagged layer with the display name of
\* the user's layer counts.
_check_layer_muted_by_name(extraction, user) ==
  IF \E lid \in DOMAIN extraction.layer_muting :
        extraction.layer_muting[lid] /\ basename(lid) = user.layer_name
  THEN Some("layer_muted") ELSE None

_check_layer_muted(extraction, user) ==
  IF DictGet(extraction.layer_muting, user.layer_identifier, FALSE)
  THEN Some("layer_muted") ELSE None

_check_payload_loaded(extraction) ==
  IF ~extraction.prim_is_loaded THEN Some("payload_not_loaded") ELSE None

_check_explicit_block(winner) ==
  IF winner.is_blocked THEN Some("attribute_blocked") ELSE None

\* Mutant of _check_arc_types: the synthesized code is returned without the
\* registry lookup.
_check_arc_types_unvalidated(winner, user) ==
  IF winner.arc_type # user.arc_type
  THEN Some("arc_type_" \o lower(winner.arc_type) \o "_over_"
              \o lower(user.arc_type))
  ELSE None

\* Mutant of _check_arc_types: the pair is named user-over-winner.
_check_arc_types_swapped(winner, user) ==
  IF winner.arc_type # user.arc_type
  THEN LET reason == "arc_type_" \o lower(user.arc_type) \o "_over_"
                       \o lower(winner.arc_type)
       IN IF IsRegistered(reason) THEN Some(reason)
          ELSE Some("listop_position")
  ELSE None

\* Mutant of _check_arc_types: an unregistered pair yields no reason, so the
\* secondary ordering decides.
_check_arc_types_no_fallback(winner, user) ==
  IF winner.arc_type # user.arc_type
  THEN LET reason == "arc_type_" \o lower(winner.arc_type) \o "_over_"
                       \o lower(user.arc_type)
       IN IF IsRegistered(reason) THEN Some(reason) ELSE None
  ELSE None

_check_arc_types(winner, user) ==
  IF winner.arc_type # user.arc_type
  THEN LET reason == "arc_type_" \o lower(winner.arc_type) \o "_over_"
                       \o lower(user.arc_type)
       IN IF IsRegistered(reason) THEN Some(reason)
          ELSE Some("listop_position")
  ELSE None

\* Mutant of _check_secondary_ordering: directness is tested before the
\* both-Local rule.
_check_secondary_ordering_direct_first(winner, user) ==
  IF winner.is_direct /\ ~user.is_direct THEN "direct_over_ancestral"
  ELSE IF winner.arc_type = "Local" THEN "sublayer_order"
  ELSE "listop_position"

\* Mutant of _check_secondary_ordering: the directness rule looks at the
\* user's opinion only.
_check_secondary_ordering_user_ancestral(winner, user) ==
  IF winner.arc_type = "Local" THEN "sublayer_order"
  ELSE IF ~user.is_direct THEN "direct_over_ancestral"
  ELSE "listop_position"

_check_secondary_ordering(winner, user) ==
  IF winner.arc_type = "Local" THEN "sublayer_order"
  ELSE IF winner.is_direct /\ ~user.is_direct THEN "direct_over_ancestral"
  ELSE "listop_position"

\* Mutant of run_checks: the loaded check runs before the mute check.
run_checks_loaded_first(extraction, winner, user) ==
  LET muted   == _check_layer_muted(extraction, user)
      loaded  == _check_payload_loaded(extraction)
      blocked == _check_explicit_block(winner)
      arcs    == _check_arc_types(winner, user)
  IN IF IsSome(loaded) THEN The(loaded)
     ELSE IF IsSome(muted) THEN The(muted)
     ELSE IF IsSome(blocked) THEN The(blocked)
     ELSE IF IsSome(arcs) THEN The(arcs)
     ELSE _check_secondary_ordering(winner, user)

\* Mutant of run_checks: the block check runs before the loaded check.
run_checks_block_before_loaded(extraction, winner, user) ==
  LET muted   == _check_layer_muted(extraction, user)
      loaded  == _check_payload_loaded(extraction)
      blocked == _check_explicit_block(winner)
      arcs    == _check_arc_types(winner, user)
  IN IF IsSome(muted) THEN The(muted)
     ELSE IF IsSome(blocked) THEN The(blocked)
     ELSE IF IsSome(loaded) THEN The(loaded)
     ELSE IF IsSome(arcs) THEN The(arcs)
     ELSE _check_secondary_ordering(winner, user)

run_checks(extraction, winner, user) ==
  LET muted   == _check_layer_muted(extraction, user)
      loaded  == _check_payload_loaded(extraction)
      blocked == _check_explicit_block(winner)
      arcs    == _check_arc_types(winner, user)
  IN IF IsSome(muted) THEN The(muted)
     ELSE IF IsSome(loaded) THEN The(loaded)
     ELSE IF IsSome(blocked) THEN The(blocked)
     ELSE IF IsSome(arcs) THEN The(arcs)
     ELSE _check_secondary_ordering(winner, user)

\* Mutant of diagnose: the winner is reported as blocker also when the user's
\* opinion is the winner.
diagnose_blocker_when_winning(extraction, user_layer) ==
  IF IsSome(extraction.error) THEN None
  ELSE
    LET user_opinion == find_user_opinion(extraction.opinions, user_layer)
    IN IF ~IsSome(user_opinion)
       THEN Some(DiagnosisResult(FALSE, None, None, None,
                   "no_opinion_in_user_layer",
                   get_reason_detail("no_opinion_in_user_layer"),
                   get_suggestions("no_opinion_in_user_layer")))
       ELSE IF The(user_opinion).index = 0
       THEN Some(DiagnosisResult(TRUE, Some(0), Some(0),
                   Some(extraction.opinions[1].layer_name),
                   "user_opinion_is_winning",
                   get_reason_detail("user_opinion_is_winning"),
                   get_suggestions("user_opinion_is_winning")))
       ELSE
         LET winner == extraction.opinions[1]
             reason == run_checks(extraction, winner, The(user_opinion))
         IN Some(DiagnosisResult(TRUE, Some(The(user_opinion).index), Some(0),
                   Some(winner.layer_name), reason,
                   get_reason_detail(reason), get_suggestions(reason)))

\* Mutant of diagnose: the detail of a blocked result names the blocking
\* layer.
diagnose_detail_names_blocker(extraction, user_layer) ==
  IF IsSome(extraction.error) THEN None
  ELSE
    LET user_opinion == find_user_opinion(extraction.opinions, user_layer)
    IN IF ~IsSome(user_opinion)
       THEN Some(DiagnosisResult(FALSE, None, None, None,
                   "no_opinion_in_user_layer",
                   get_reason_detail("no_opinion_in_user_layer"),
                   get_suggestions("no_opinion_in_user_layer")))
       ELSE IF The(user_opinion).index = 0
       THEN Some(DiagnosisResult(TRUE, Some(0), None, None,
                   "user_opinion_is_winning",
                   get_reason_detail("user_opinion_is_winning"),
                   get_suggestions("user_opinion_is_winning")))
       ELSE
         LET winner == extraction.opinions[1]
             reason == run_checks(extraction, winner, The(user_opinion))
         IN Some(DiagnosisResult(TRUE, Some(The(user_opinion).index), Some(0),
                   Some(winner.layer_name), reason,
                   get_reason_detail(reason) \o " (" \o winner.layer_name \o ")",
                   get_suggestions(reason)))

diagnose(extraction, user_layer) ==
  IF IsSome(extraction.error) THEN None
  ELSE
    LET user_opinion == find_user_opinion(extraction.opinions, user_layer)
    IN IF ~IsSome(user_opinion)
       THEN Some(DiagnosisResult(FALSE, None, None, None,
                   "no_opinion_in_user_layer",
                   get_reason_detail("no_opinion_in_user_layer"),
                   get_suggestions("no_opinion_in_user_layer")))
       ELSE IF The(user_opinion).index = 0
       THEN Some(DiagnosisResult(TRUE, Some(0), None, None,
                   "user_opinion_is_winning",
                   get_reason_detail("user_opinion_is_winning"),
                   get_suggestions("user_opinion_is_winning")))
       ELSE
         LET winner == extraction.opinions[1]
             reason == run_checks(extraction, winner, The(user_opinion))
         IN Some(DiagnosisResult(TRUE, Some(The(user_opinion).index), Some(0),
                   Some(winner.layer_name), reason,
                   get_reason_detail(reason), get_suggestions(reason)))

\* ------------------------------------------------------------------------
\* The composition engine (pxr.Usd / pxr.Sdf / pxr.Pcp), as the extractor
\* sees it: one record of the answers it gives for the queried attribute.
\* ------------------------------------------------------------------------

\* The members of Pcp.ArcType; the last stands for a member this tool's
\* arc_map does not list.
PcpArcTypes ==
  {"ArcTypeRoot", "ArcTypeInherit", "ArcTypeVariant", "ArcTypeRelocate",
   "ArcTypeReference", "ArcTypePayload", "ArcTypeSpecialize", "ArcTypeOther"}

\* What spec.default can hold: nothing, a value, an explicit block.
SpecDefaults == {None, Some(AuthoredValue), Some(ValueBlock)}

\* The value attr.Get(time_code) may return for a property stack: specs are
\* consulted strongest first; at a numeric time a spec's time samples come
\* before its default (a sample may itself be blocked), at the default time
\* only defaults count; a block resolves to no value; with nothing authored
\* the schema fallback, if any, is returned.
RECURSIVE AttrGet(_, _)
AttrGet(stack, time) ==
  IF stack = << >> THEN {None, Some(AuthoredValue)}
  ELSE LET spec == Head(stack)
       IN IF IsSome(time) /\ spec.timeSamples THEN {None, Some(AuthoredValue)}
          ELSE IF IsValueBlock(spec.default) THEN {None}
          ELSE IF IsSome(spec.default) THEN {spec.default}
          ELSE AttrGet(Tail(stack), time)

\* ------------------------------------------------------------------------
\* extraction.py
\* ------------------------------------------------------------------------

OpinionInfo(index, layer_identifier, layer_name, arc_type, is_direct, value, has_timesamples, is_blocked) ==
  [index            |-> index,
   layer_identifier |-> layer_identifier,
   layer_name       |-> layer_name,
   arc_type         |-> arc_type,
   is_direct        |-> is_direct,
   value            |-> value,
   has_timesamples  |-> has_timesamples,
   is_blocked       |-> is_blocked]

ExtractionResult(stage_path, prim_path, attr_name, time_code, resolved_value, resolved_value_type, opinions, layer_muting, prim_is_loaded, error) ==
  [stage_path          |-> stage_path,
   prim_path           |-> prim_path,
   attr_name           |-> attr_name,
   time_code           |-> time_code,
   resolved_value      |-> resolved_value,
   resolved_value_type |-> resolved_value_type,
   opinions            |-> opinions,
   layer_muting        |-> layer_muting,
   prim_is_loaded      |-> prim_is_loaded,
   error               |-> error]

\* Mutant of arc_type_to_string: an arc type outside the map is passed
\* through as its own name.
arc_type_to_string_raw(arc_type, has_relocate) ==
  CASE arc_type = "ArcTypeRoot"       -> "Local"
    [] arc_type = "ArcTypeInherit"    -> "Inherit"
    [] arc_type = "ArcTypeVariant"    -> "Variant"
    [] arc_type = "ArcTypeReference"  -> "Reference"
    [] arc_type = "ArcTypePayload"    -> "Payload"
    [] arc_type = "ArcTypeSpecialize" -> "Specialize"
    [] arc_type = "ArcTypeRelocate" /\ has_relocate -> "Relocate"
    [] OTHER -> arc_type

arc_type_to_string(arc_type, has_relocate) ==
  CASE arc_type = "ArcTypeRoot"       -> "Local"
    [] arc_type = "ArcTypeInherit"    -> "Inherit"
    [] arc_type = "ArcTypeVariant"    -> "Variant"
    [] arc_type = "ArcTypeReference"  -> "Reference"
    [] arc_type = "ArcTypePayload"    -> "Payload"
    [] arc_type = "ArcTypeSpecialize" -> "Specialize"
    [] arc_type = "ArcTypeRelocate" /\ has_relocate -> "Relocate"
    [] OTHER -> "Unknown"

get_arc_type_for_spec(engine, spec) ==
  IF IsSome(spec.node)
  THEN arc_type_to_string(The(spec.node).arcType, engine.has_relocate)
  ELSE "Local"

RECURSIVE first_arc_of_layer(_, _)
first_arc_of_layer(arcs, layer) ==
  IF arcs = << >> THEN None
  ELSE IF IsSome(Head(arcs).introducing_layer)
          /\ The(Head(arcs).introducing_layer) = layer
       THEN Some(Head(arcs))
       ELSE first_arc_of_layer(Tail(arcs), layer)

is_spec_direct(engine, spec) ==
  LET arc == first_arc_of_layer(engine.composition_arcs, spec.layer)
  IN IF IsSome(arc) THEN ~The(arc).is_ancestral ELSE TRUE

get_value_type_name(value) ==
  IF value = None THEN "None"
  ELSE IF The(value) = ValueBlock THEN "ValueBlock"
  ELSE "float"

\* Mutant of _create_error_result: code and message are stored swapped.
_create_error_result_swapped(stage_path, prim_path, attr_name, time, error_code, error_message) ==
  ExtractionResult(stage_path, prim_path, attr_name, time, None, "None",
                   << >>, EmptyDict, FALSE,
                   Some([code |-> error_message, message |-> error_code]))

_create_error_result(stage_path, prim_path, attr_name, time, error_code, error_message) ==
  ExtractionResult(stage_path, prim_path, attr_name, time, None, "None",
                   << >>, EmptyDict, FALSE,
                   Some([code |-> error_code, message |-> error_message]))

\* Mutant of opinion_of_spec: indices are counted from 1.
opinion_of_spec_one_based(engine, i) ==
  LET spec  == engine.prop_stack[i]
      value == spec.default
  IN OpinionInfo(i, spec.layer, basename(spec.layer),
                 get_arc_type_for_spec(engine, spec),
                 is_spec_direct(engine, spec),
                 value, spec.timeSamples, IsValueBlock(value))

\* Steps 5-6 of extract_opinions: the opinion built for the spec at list
\* position i (index i - 1).
opinion_of_spec(engine, i) ==
  LET spec  == engine.prop_stack[i]
      value == spec.default
  IN OpinionInfo(i - 1, spec.layer, basename(spec.layer),
                 get_arc_type_for_spec(engine, spec),
                 is_spec_direct(engine, spec),
                 value, spec.timeSamples, IsValueBlock(value))

\* Mutant of extract_opinions: the NO_VALID_OPINIONS result keeps what was
\* gathered before the error.
extract_opinions_partial(engine, stage_path, prim_path, attr_name, time) ==
  IF ~engine.stage_opens
  THEN _create_error_result(stage_path, prim_path, attr_name, time,
         "STAGE_NOT_FOUND", "Could not open stage '" \o stage_path \o "'")
  ELSE IF ~engine.prim_valid
  THEN _create_error_result(stage_path, prim_path, attr_name, time,
         "PRIM_NOT_FOUND", "Prim '" \o prim_path \o "' does not exist")
  ELSE IF ~engine.attr_exists
  THEN _create_error_result(stage_path, prim_path, attr_name, time,
         "ATTR_NOT_FOUND",
         "Attribute '" \o attr_name \o "' does not exist on prim")
  ELSE
    LET resolved_value == engine.resolved_value
        opinions == [i \in 1..Len(engine.prop_stack) |->
                       opinion_of_spec(engine, i)]
        all_layers == {opinions[i].layer_identifier : i \in 1..Len(opinions)}
        layer_muting == [lid \in all_layers |-> lid \in engine.muted_layers]
    IN IF Len(opinions) = 1
          /\ (resolved_value = None \/ IsValueBlock(resolved_value))
       THEN ExtractionResult(stage_path, prim_path, attr_name, time,
              None, "None", opinions, layer_muting, engine.prim_is_loaded,
              Some([code    |-> "NO_VALID_OPINIONS",
                    message |-> "Attribute '" \o attr_name
                                \o "' has no valid opinions "
                                \o "(only one opinion found which is null or blocked)"]))
       ELSE ExtractionResult(stage_path, prim_path, attr_name, time,
              resolved_value, get_value_type_name(resolved_value), opinions,
              layer_muting, engine.prim_is_loaded, None)

\* Mutant of extract_opinions: the attribute lookup is classified before the
\* prim lookup.
extract_opinions_attr_first(engine, stage_path, prim_path, attr_name, time) ==
  IF ~engine.stage_opens
  THEN _create_error_result(stage_path, prim_path, attr_name, time,
         "STAGE_NOT_FOUND", "Could not open stage '" \o stage_path \o "'")
  ELSE IF ~engine.attr_exists
  THEN _create_error_result(stage_path, prim_path, attr_name, time,
         "ATTR_NOT_FOUND",
         "Attribute '" \o attr_name \o "' does not exist on prim")
  ELSE IF ~engine.prim_valid
  THEN _create_error_result(stage_path, prim_path, attr_name, time,
         "PRIM_NOT_FOUND", "Prim '" \o prim_path \o "' does not exist")
  ELSE
    LET resolved_value == engine.resolved_value
        opinions == [i \in 1..Len(engine.prop_stack) |->
                       opinion_of_spec(engine, i)]
        all_layers == {opinions[i].layer_identifier : i \in 1..Len(opinions)}
        layer_muting == [lid \in all_layers |-> lid \in engine.muted_layers]
    IN IF Len(opinions) = 1
          /\ (resolved_value = None \/ IsValueBlock(resolved_value))
       THEN _create_error_result(stage_path, prim_path, attr_name, time,
              "NO_VALID_OPINIONS",
              "Attribute '" \o attr_name \o "' has no valid opinions "
              \o "(only one opinion found which is null or blocked)")
       ELSE ExtractionResult(stage_path, prim_path, attr_name, time,
              resolved_value, get_value_type_name(resolved_value), opinions,
              layer_muting, engine.prim_is_loaded, None)

extract_opinions(engine, stage_path, prim_path, attr_name, time) ==
  IF ~engine.stage_opens
  THEN _create_error_result(stage_path, prim_path, attr_name, time,
         "STAGE_NOT_FOUND", "Could not open stage '" \o stage_path \o "'")
  ELSE IF ~engine.prim_valid
  THEN _create_error_result(stage_path, prim_path, attr_name, time,
         "PRIM_NOT_FOUND", "Prim '" \o prim_path \o "' does not exist")
  ELSE IF ~engine.attr_exists
  THEN _create_error_result(stage_path, prim_path, attr_name, time,
         "ATTR_NOT_FOUND",
         "Attribute '" \o attr_name \o "' does not exist on prim")
  ELSE
    LET resolved_value == engine.resolved_value
        opinions == [i \in 1..Len(engine.prop_stack) |->
                       opinion_of_spec(engine, i)]
        all_layers == {opinions[i].layer_identifier : i \in 1..Len(opinions)}
        layer_muting == [lid \in all_layers |-> lid \in engine.muted_layers]
    IN IF Len(opinions) = 1
          /\ (resolved_value = None \/ IsValueBlock(resolved_value))
       THEN _create_error_result(stage_path, prim_path, attr_name, time,
              "NO_VALID_OPINIONS",
              "Attribute '" \o attr_name \o "' has no valid opinions "
              \o "(only one opinion found which is null or blocked)")
       ELSE ExtractionResult(stage_path, prim_path, attr_name, time,
              resolved_value, get_value_type_name(resolved_value), opinions,
              layer_muting, engine.prim_is_loaded, None)

\* ------------------------------------------------------------------------
\* cli.py
\* ------------------------------------------------------------------------

\* "winning" if o.index == 0 else "blocked"
status_of(o) == IF o.index = 0 THEN "winning" ELSE "blocked"

\* user_layer and user_layer in (o.layer_identifier, o.layer_name)
is_user_layer_of(o, user_layer) ==
  IF user_layer = "" THEN user_layer
  ELSE user_layer \in {o.layer_identifier, o.layer_name}

build_output(extraction, diagnosis, user_layer) ==
  [query |->
     [stage      |-> extraction.stage_path,
      prim_path  |-> extraction.prim_path,
      attribute  |-> extraction.attr_name,
      user_layer |-> user_layer,
      time       |-> extraction.time_code],
   resolved_value      |-> extraction.resolved_value,
   resolved_value_type |-> extraction.resolved_value_type,
   opinions |->
     [i \in 1..Len(extraction.opinions) |->
        LET o == extraction.opinions[i]
        IN [index            |-> o.index,
            layer            |-> o.layer_name,
            layer_identifier |-> o.layer_identifier,
            arc_type         |-> o.arc_type,
            value            |-> o.value,
            has_timesamples  |-> o.has_timesamples,
            is_blocked       |-> o.is_blocked,
            status           |-> status_of(o),
            is_user_layer    |-> is_user_layer_of(o, user_layer),
            is_direct        |-> o.is_direct]],
   diagnosis |-> diagnosis,
   error     |-> extraction.error]

output_error(error) == [error |-> error]

\* ------------------------------------------------------------------------
\* State
\* ------------------------------------------------------------------------

VARIABLES
  pc,          \* where the run is: "start", "extracted", "diagnosed", "exit"
               \* (main), or "diagnose_call", "diagnose_return" (diagnose alone)
  args,        \* the parsed command line: layer, time, stack_only
  engine,      \* the composition engine's answers for the queried attribute
  extraction,  \* None, or the ExtractionResult
  diagnosis,   \* None, or the DiagnosisResult
  stdout,      \* None, or the object printed
  returncode,  \* None, or main's return value
  calls,       \* the pipeline functions main has called, in order
  earlier,     \* what the caller kept of its earlier runs of the pipeline
  gui          \* the GUI's MainWindow and its loader threads

vars ==
  << pc, args, engine, extraction, diagnosis, stdout, returncode, calls,
     earlier, gui >>

\* The command line, and the pipeline functions called alone, have no window.
NoGui == None

\* The positional arguments stage, prim_path and attribute of the query.
StagePath == "shot.usda"
PrimPath  == "/World/Chair"
AttrName  == "size"

\* The user-layer locators tried: a full identifier, a display name shared by
\* two layers, a display name of one layer, and a layer not in the scene.
Locators == {"/shot/look.usda", "look.usda", "anim.usda", "nonexistent.usda"}

\* --time: absent, or a numeric time code.
TimeCodes == {None, Some(1)}

Args == [layer : Locators, time : TimeCodes, stack_only : BOOLEAN]

\* All sequences over S of length 0..n.
RECURSIVE SeqsUpTo(_, _)
SeqsUpTo(S, n) ==
  IF n = 0 THEN {<< >>}
  ELSE LET shorter == SeqsUpTo(S, n - 1)
       IN shorter \cup {Append(s, x) : s \in {t \in shorter : Len(t) = n - 1}, x \in S}

LayersOf(stack) == {stack[i].layer : i \in 1..Len(stack)}

\* The engine when the stage, the prim or the attribute does not resolve:
\* nothing past the failing lookup exists.
Unresolved(stage_opens, prim_valid, attr_exists) ==
  [stage_opens      |-> stage_opens,
   prim_valid       |-> prim_valid,
   attr_exists      |-> attr_exists,
   has_relocate     |-> TRUE,
   prop_stack       |-> << >>,
   resolved_value   |-> None,
   muted_layers     |-> {},
   prim_is_loaded   |-> FALSE,
   composition_arcs |-> << >>]

\* The nodes GetNodeProvidingSpec answers with in the runs of main: none, the
\* root node, a reference node.
MainNodes == {None, Some([arcType |-> "ArcTypeRoot"]),
              Some([arcType |-> "ArcTypeReference"])}

\* The answers of PrimCompositionQuery.GetCompositionArcs in the runs of
\* main: no arc, or the root arc followed by an arc authored in one layer.
MainArcLists ==
  {<< >>} \cup
  {<< [introducing_layer |-> None, is_ancestral |-> FALSE],
      [introducing_layer |-> Some("/shot/look.usda"), is_ancestral |-> a] >> :
     a \in BOOLEAN}

MainSpecs ==
  [layer : LayerIds, node : MainNodes, default : SpecDefaults,
   timeSamples : BOOLEAN]

\* The engine once stage, prim and attribute resolved.
Resolved(prop_stack, resolved_value, muted_layers, prim_is_loaded, composition_arcs) ==
  [stage_opens      |-> TRUE,
   prim_valid       |-> TRUE,
   attr_exists      |-> TRUE,
   has_relocate     |-> TRUE,
   prop_stack       |-> prop_stack,
   resolved_value   |-> resolved_value,
   muted_layers     |-> muted_layers,
   prim_is_loaded   |-> prim_is_loaded,
   composition_arcs |-> composition_arcs]

\* The specs below the two strongest ones in the runs of main: a plain
\* authored value brought in by a reference.
WeakerSpecs ==
  {[layer |-> "/shot/anim.usda", node |-> Some([arcType |-> "ArcTypeReference"]),
    default |-> Some(AuthoredValue), timeSamples |-> FALSE]}

\* Property stacks of length 0..n, strongest first: any two specs, then
\* weaker ones.
RECURSIVE StacksUpTo(_)
StacksUpTo(n) ==
  IF n <= 2 THEN SeqsUpTo(MainSpecs, n)
  ELSE LET shorter == StacksUpTo(n - 1)
       IN shorter \cup
          {Append(s, x) : s \in {t \in shorter : Len(t) = n - 1},
                          x \in WeakerSpecs}

MainStacks == StacksUpTo(MaxOpinions)

\* The engine is not consulted when diagnose is applied to a given result.
NoEngine == Unresolved(FALSE, FALSE, FALSE)

\* ------------------------------------------------------------------------
\* main(): parse, extract, diagnose, output
\* ------------------------------------------------------------------------

Init ==
  /\ pc = "start"
  /\ args \in Args
  /\ \/ engine \in {Unresolved(FALSE, FALSE, FALSE),
                     Unresolved(TRUE, FALSE, FALSE),
                     Unresolved(TRUE, TRUE, FALSE)}
     \/ \E stack \in MainStacks, arcs \in MainArcLists, loaded \in BOOLEAN :
          \E muted \in SUBSET LayersOf(stack) :
            \E resolved \in AttrGet(stack, args.time) :
              engine = Resolved(stack, resolved, muted, loaded, arcs)
  /\ extraction = None
  /\ diagnosis = None
  /\ stdout = None
  /\ returncode = None
  /\ calls = << >>
  /\ earlier = << >>
  /\ gui = NoGui

\* Mutant of Phase1Extract: the error is printed but main does not return.
Phase1Extract_no_return ==
  /\ pc = "start"
  /\ LET result == extract_opinions(engine, StagePath, PrimPath, AttrName,
                                    args.time)
     IN /\ extraction' = Some(result)
        /\ IF IsSome(result.error)
           THEN /\ stdout' = Some(output_error(The(result.error)))
                /\ calls' = calls \o << "extract_opinions", "output_error" >>
                /\ UNCHANGED returncode
           ELSE /\ calls' = Append(calls, "extract_opinions")
                /\ UNCHANGED << stdout, returncode >>
        /\ pc' = "extracted"
  /\ UNCHANGED << gui, earlier, args, engine, diagnosis >>

\* Phase 1: extract; on an extraction error print it and return 1.
Phase1Extract ==
  /\ pc = "start"
  /\ LET result == extract_opinions(engine, StagePath, PrimPath, AttrName,
                                    args.time)
     IN /\ extraction' = Some(result)
        /\ IF IsSome(result.error)
           THEN /\ stdout' = Some(output_error(The(result.error)))
                /\ returncode' = Some(1)
                /\ calls' = calls \o << "extract_opinions", "output_error" >>
                /\ pc' = "exit"
           ELSE /\ calls' = Append(calls, "extract_opinions")
                /\ pc' = "extracted"
                /\ UNCHANGED << stdout, returncode >>
  /\ UNCHANGED << gui, earlier, args, engine, diagnosis >>

\* Mutant of Phase2Diagnose: diagnose pops the winner off the opinion list
\* it was given.
Phase2Diagnose_pops_winner ==
  /\ pc = "extracted"
  /\ IF ~args.stack_only
     THEN /\ diagnosis' = diagnose(The(extraction), args.layer)
          /\ calls' = Append(calls, "diagnose")
          /\ extraction' =
               IF The(extraction).opinions = << >> THEN extraction
               ELSE Some([The(extraction) EXCEPT
                            !.opinions = Tail(The(extraction).opinions)])
     ELSE /\ diagnosis' = None
          /\ UNCHANGED << calls, extraction >>
  /\ pc' = "diagnosed"
  /\ UNCHANGED << gui, earlier, args, engine, stdout, returncode >>

\* Mutant of Phase2Diagnose: --stack-only is ignored.
Phase2Diagnose_always ==
  /\ pc = "extracted"
  /\ diagnosis' = diagnose(The(extraction), args.layer)
  /\ calls' = Append(calls, "diagnose")
  /\ pc' = "diagnosed"
  /\ UNCHANGED << gui, earlier, args, engine, extraction, stdout, returncode >>

\* Phase 2: diagnose, unless --stack-only.
Phase2Diagnose ==
  /\ pc = "extracted"
  /\ IF ~args.stack_only
     THEN /\ diagnosis' = diagnose(The(extraction), args.layer)
          /\ calls' = Append(calls, "diagnose")
     ELSE /\ diagnosis' = None
          /\ UNCHANGED calls
  /\ pc' = "diagnosed"
  /\ UNCHANGED << gui, earlier, args, engine, extraction, stdout, returncode >>

\* Mutant of Phase3Output: a diagnosis that did not find the user's layer
\* makes main return 1.
Phase3Output_unfound_fails ==
  /\ pc = "diagnosed"
  /\ stdout' = Some(build_output(The(extraction), diagnosis, args.layer))
  /\ calls' = Append(calls, "build_output")
  /\ returncode' = IF IsSome(diagnosis) /\ ~The(diagnosis).user_layer_found
                    THEN Some(1) ELSE Some(0)
  /\ pc' = "exit"
  /\ UNCHANGED << gui, earlier, args, engine, extraction, diagnosis >>

\* Phase 3: build the output, print it and return 0.
Phase3Output ==
  /\ pc = "diagnosed"
  /\ stdout' = Some(build_output(The(extraction), diagnosis, args.layer))
  /\ calls' = Append(calls, "build_output")
  /\ returncode' = Some(0)
  /\ pc' = "exit"
  /\ UNCHANGED << gui, earlier, args, engine, extraction, diagnosis >>

Next == Phase1Extract \/ Phase2Diagnose \/ Phase3Output

Spec == Init /\ [][Next]_vars

\* ------------------------------------------------------------------------
\* A caller that runs the pipeline again and keeps the earlier results
\* ------------------------------------------------------------------------

RunArgs ==
  [layer : {"/shot/look.usda", "nonexistent.usda"}, time : {None},
   stack_only : BOOLEAN]

RunSpecs ==
  [layer : {"/shot/look.usda", "/asset/look.usda"},
   node : {Some([arcType |-> "ArcTypeRoot"])},
   default : {Some(AuthoredValue), Some(ValueBlock)}, timeSamples : {FALSE}]

\* The engines of these runs: the attribute is missing, or it resolves over
\* a stack of plain specs of a loaded prim with no layer muted.
RunEngines(time) ==
  {Unresolved(TRUE, TRUE, FALSE)} \cup
  UNION {{Resolved(stack, resolved, {}, TRUE, << >>) :
            resolved \in AttrGet(stack, time)} :
           stack \in SeqsUpTo(RunSpecs, MaxOpinions)}

InitRuns ==
  /\ pc = "start"
  /\ args \in RunArgs
  /\ engine \in RunEngines(args.time)
  /\ extraction = None
  /\ diagnosis = None
  /\ stdout = None
  /\ returncode = None
  /\ calls = << >>
  /\ earlier = << >>
  /\ gui = NoGui

\* The caller keeps the results of the run that ended and starts the
\* pipeline again, on any query and any stage.
Rerun ==
  /\ pc = "exit"
  /\ earlier = << >>
  /\ gui = NoGui
  /\ earlier' = Append(earlier, [extraction |-> extraction,
                                  diagnosis  |-> diagnosis,
                                  stdout     |-> stdout])
  /\ args' \in RunArgs
  /\ engine' \in RunEngines(args'.time)
  /\ extraction' = None
  /\ diagnosis' = None
  /\ stdout' = None
  /\ returncode' = None
  /\ calls' = << >>
  /\ pc' = "start"
  /\ UNCHANGED gui

NextRuns == Phase1Extract \/ Phase2Diagnose \/ Phase3Output \/ Rerun

SpecRuns == InitRuns /\ [][NextRuns]_vars

\* ------------------------------------------------------------------------
\* diagnose() applied to any ExtractionResult
\* ------------------------------------------------------------------------

\* Opinions as extract_opinions builds them, over every arc-kind string.
Opinions(index) ==
  {OpinionInfo(index, lid, basename(lid), arc, direct, value, ts,
               IsValueBlock(value)) :
     lid \in LayerIds, arc \in ArcStrings, direct \in BOOLEAN,
     value \in {Some(AuthoredValue), Some(ValueBlock)}, ts \in BOOLEAN}

\* The opinions listed below the two strongest ones: an indirect Reference
\* opinion with a plain value and no time samples.
WeakerOpinions(index) ==
  {OpinionInfo(index, "/shot/anim.usda", basename("/shot/anim.usda"),
               "Reference", FALSE, Some(AuthoredValue), FALSE, FALSE)}

\* Opinion lists of length 0..n, the opinion at position k having index k - 1:
\* any two opinions, then weaker ones.
RECURSIVE OpinionLists(_)
OpinionLists(n) ==
  IF n = 0 THEN {<< >>}
  ELSE LET shorter == OpinionLists(n - 1)
       IN shorter \cup
          {Append(s, o) : s \in {t \in shorter : Len(t) = n - 1},
                          o \in IF n <= 2 THEN Opinions(n - 1)
                                 ELSE WeakerOpinions(n - 1)}

\* Mute maps: any set of layer identifiers flagged, the others absent.
MuteMaps == UNION {[S -> {TRUE}] : S \in SUBSET LayerIds}

ErrorCodes ==
  {"STAGE_NOT_FOUND", "PRIM_NOT_FOUND", "ATTR_NOT_FOUND", "NO_VALID_OPINIONS"}

InitDiagnose ==
  /\ pc = "diagnose_call"
  /\ args \in [layer : Locators, time : {None}, stack_only : {FALSE}]
  /\ engine = NoEngine
  /\ \/ \E opinions \in OpinionLists(MaxOpinions), layer_muting \in MuteMaps,
           prim_is_loaded \in BOOLEAN :
          extraction = Some(ExtractionResult(StagePath, PrimPath, AttrName,
                              None, None, "None", opinions, layer_muting,
                              prim_is_loaded, None))
     \/ \E code \in ErrorCodes :
          extraction = Some(_create_error_result(StagePath, PrimPath,
                              AttrName, None, code, ""))
  /\ diagnosis = None
  /\ stdout = None
  /\ returncode = None
  /\ calls = << >>
  /\ earlier = << >>
  /\ gui = NoGui

DiagnoseCall ==
  /\ pc = "diagnose_call"
  /\ diagnosis' = diagnose(The(extraction), args.layer)
  /\ calls' = Append(calls, "diagnose")
  /\ pc' = "diagnose_return"
  /\ UNCHANGED << gui, earlier, args, engine, extraction, stdout, returncode >>

NextDiagnose == DiagnoseCall

SpecDiagnose == InitDiagnose /\ [][NextDiagnose]_vars

\* ------------------------------------------------------------------------
\* extract_opinions applied to an engine whose nodes carry any arc type
\* ------------------------------------------------------------------------

\* The answers of GetNodeProvidingSpec: no node, or a node of any arc type.
ExtractNodes == {None} \cup {Some([arcType |-> a]) : a \in PcpArcTypes}

ExtractSpecs ==
  [layer : LayerIds, node : ExtractNodes, default : SpecDefaults,
   timeSamples : BOOLEAN]

\* Property stacks of length 0..n, strongest first: any two specs, then
\* weaker ones.
RECURSIVE ExtractStacks(_)
ExtractStacks(n) ==
  IF n <= 2 THEN SeqsUpTo(ExtractSpecs, n)
  ELSE LET shorter == ExtractStacks(n - 1)
       IN shorter \cup
          {Append(s, x) : s \in {t \in shorter : Len(t) = n - 1},
                          x \in WeakerSpecs}

\* A Pcp module without ArcTypeRelocate reports no node of that type.
NodesKnown(stack, has_relocate) ==
  has_relocate \/
    \A i \in 1..Len(stack) :
      stack[i].node # Some([arcType |-> "ArcTypeRelocate"])

\* The node attr.GetResolveInfo(time_code).GetNode() may answer with: the
\* node of the strongest spec that supplies the value (time samples at a
\* numeric time, else an authored default); none when a block ends the
\* search or no spec supplies a value.
RECURSIVE GetResolveInfoNode(_, _)
GetResolveInfoNode(stack, time) ==
  IF stack = << >> THEN {None}
  ELSE LET spec == Head(stack)
       IN IF IsSome(time) /\ spec.timeSamples THEN {spec.node}
          ELSE IF IsValueBlock(spec.default) THEN {None}
          ELSE IF IsSome(spec.default) THEN {spec.node}
          ELSE GetResolveInfoNode(Tail(stack), time)

InitExtract ==
  /\ pc = "extract_call"
  /\ args \in [layer : {"look.usda"}, time : TimeCodes, stack_only : {FALSE}]
  /\ \/ engine \in {Unresolved(FALSE, FALSE, FALSE),
                     Unresolved(TRUE, FALSE, FALSE),
                     Unresolved(TRUE, TRUE, FALSE)}
     \/ \E stack \in ExtractStacks(MaxOpinions), has_relocate \in BOOLEAN,
           loaded \in BOOLEAN :
          /\ NodesKnown(stack, has_relocate)
          /\ \E muted \in SUBSET LayersOf(stack) :
               \E resolved \in AttrGet(stack, args.time) :
                 engine = [Resolved(stack, resolved, muted, loaded, << >>)
                             EXCEPT !.has_relocate = has_relocate]
  /\ extraction = None
  /\ diagnosis = None
  /\ stdout = None
  /\ returncode = None
  /\ calls = << >>
  /\ earlier = << >>
  /\ gui = NoGui

ExtractCall ==
  /\ pc = "extract_call"
  /\ extraction' = Some(extract_opinions(engine, StagePath, PrimPath, AttrName,
                                         args.time))
  /\ calls' = Append(calls, "extract_opinions")
  /\ pc' = "extract_return"
  /\ UNCHANGED << gui, earlier, args, engine, diagnosis, stdout, returncode >>

NextExtract == ExtractCall

SpecExtract == InitExtract /\ [][NextExtract]_vars

\* ------------------------------------------------------------------------
\* The registry lookups applied to a reason-code string
\* ------------------------------------------------------------------------

\* Reason-code strings: the registered ones, every arc-pair string
\* _check_arc_types can synthesize, and some that are neither.
ReasonCodeStrings ==
  DOMAIN REASON_CODES
  \cup {"arc_type_" \o lower(w) \o "_over_" \o lower(u) :
          w \in ArcStrings, u \in ArcStrings}
  \cup {"", "unknown", "Local", "LAYER_MUTED", "arc_type_local_over_"}

InitLookup ==
  /\ pc = "lookup_call"
  /\ args \in [reason_code : ReasonCodeStrings]
  /\ engine = NoEngine
  /\ extraction = None
  /\ diagnosis = None
  /\ stdout = None
  /\ returncode = None
  /\ calls = << >>
  /\ earlier = << >>
  /\ gui = NoGui

LookupCall ==
  /\ pc = "lookup_call"
  /\ stdout' = Some([arc_descriptions |-> get_arc_descriptions(args.reason_code),
                      detail           |-> get_detail(args.reason_code),
                      scenarios        |-> get_scenarios(args.reason_code),
                      reason_detail    |-> get_reason_detail(args.reason_code),
                      suggestions      |-> get_suggestions(args.reason_code)])
  /\ calls' = << "get_arc_descriptions", "get_detail", "get_scenarios",
                 "get_reason_detail", "get_suggestions" >>
  /\ pc' = "lookup_return"
  /\ UNCHANGED << gui, earlier, args, engine, extraction, diagnosis, returncode >>

NextLookup == LookupCall

SpecLookup == InitLookup /\ [][NextLookup]_vars

\* ------------------------------------------------------------------------
\* extract_opinions applied to an engine that reports composition arcs
\* ------------------------------------------------------------------------

\* The node GetNodeProvidingSpec answers with, together with what the engine
\* knows of the arc that targets it: its type, whether it is due to an
\* ancestor (PcpNodeRef.IsDueToAncestor, which is what
\* UsdPrimCompositionQueryArc.IsAncestral reports), and the layer in which the
\* arc is authored (GetIntroducingLayer); the root node has no such layer.
ArcNodes ==
  {None,
   Some([arcType |-> "ArcTypeRoot", is_ancestral |-> FALSE,
         introducing_layer |-> None])}
  \cup {Some([arcType |-> a, is_ancestral |-> b, introducing_layer |-> Some(l)]) :
          a \in {"ArcTypeReference", "ArcTypeVariant"}, b \in BOOLEAN,
          l \in LayerIds}

ArcSpecs ==
  [layer : LayerIds, node : ArcNodes, default : {Some(AuthoredValue)},
   timeSamples : {FALSE}]

\* The spec below the two strongest ones: brought in from /shot/anim.usda by
\* a direct reference authored in /shot/look.usda.
WeakerArcSpecs ==
  {[layer |-> "/shot/anim.usda",
    node |-> Some([arcType |-> "ArcTypeReference", is_ancestral |-> FALSE,
                   introducing_layer |-> Some("/shot/look.usda")]),
    default |-> Some(AuthoredValue), timeSamples |-> FALSE]}

\* Property stacks of length 0..n, strongest first.
RECURSIVE ArcStacks(_)
ArcStacks(n) ==
  IF n <= 2 THEN SeqsUpTo(ArcSpecs, n)
  ELSE LET shorter == ArcStacks(n - 1)
       IN shorter \cup
          {Append(s, x) : s \in {t \in shorter : Len(t) = n - 1},
                          x \in WeakerArcSpecs}

\* Usd.PrimCompositionQuery(prim).GetCompositionArcs(): the root arc, then
\* the arcs that target the nodes of the stack, strongest first.
RECURSIVE ArcsOfNodes(_)
ArcsOfNodes(stack) ==
  IF stack = << >> THEN << >>
  ELSE LET node == Head(stack).node
       IN (IF IsSome(node) /\ IsSome(The(node).introducing_layer)
           THEN << [introducing_layer |-> The(node).introducing_layer,
                    is_ancestral      |-> The(node).is_ancestral] >>
           ELSE << >>)
          \o ArcsOfNodes(Tail(stack))

GetCompositionArcs(stack) ==
  << [introducing_layer |-> None, is_ancestral |-> FALSE] >> \o ArcsOfNodes(stack)

InitArcs ==
  /\ pc = "extract_call"
  /\ args \in [layer : {"look.usda"}, time : {None}, stack_only : {FALSE}]
  /\ \E stack \in ArcStacks(MaxOpinions), loaded \in BOOLEAN :
       \E resolved \in AttrGet(stack, args.time) :
         engine = Resolved(stack, resolved, {}, loaded, GetCompositionArcs(stack))
  /\ extraction = None
  /\ diagnosis = None
  /\ stdout = None
  /\ returncode = None
  /\ calls = << >>
  /\ earlier = << >>
  /\ gui = NoGui

NextArcs == ExtractCall

SpecArcs == InitArcs /\ [][NextArcs]_vars

\* ------------------------------------------------------------------------
\* diagnose() applied to results whose mute map holds both answers
\* ------------------------------------------------------------------------

\* Direct opinions of two arc kinds, plain or blocked.
MuteOpinions(index) ==
  {OpinionInfo(index, lid, basename(lid), arc, TRUE, value, FALSE,
               IsValueBlock(value)) :
     lid \in LayerIds, arc \in {"Local", "Reference"},
     value \in {Some(AuthoredValue), Some(ValueBlock)}}

RECURSIVE MuteOpinionLists(_)
MuteOpinionLists(n) ==
  IF n = 0 THEN {<< >>}
  ELSE LET shorter == MuteOpinionLists(n - 1)
       IN shorter \cup
          {Append(s, o) : s \in {t \in shorter : Len(t) = n - 1},
                          o \in IF n <= 2 THEN MuteOpinions(n - 1)
                                 ELSE WeakerOpinions(n - 1)}

\* {lid: stage.IsLayerMuted(lid) for lid in all_layers}: a layer identifier
\* is mapped to True, mapped to False, or absent.
AllMuteMaps == UNION {[S -> BOOLEAN] : S \in SUBSET LayerIds}

InitMute ==
  /\ pc = "diagnose_call"
  /\ args \in [layer : Locators, time : {None}, stack_only : {FALSE}]
  /\ engine = NoEngine
  /\ \E opinions \in MuteOpinionLists(MaxOpinions), layer_muting \in AllMuteMaps,
        prim_is_loaded \in BOOLEAN :
       extraction = Some(ExtractionResult(StagePath, PrimPath, AttrName,
                           None, None, "None", opinions, layer_muting,
                           prim_is_loaded, None))
  /\ diagnosis = None
  /\ stdout = None
  /\ returncode = None
  /\ calls = << >>
  /\ earlier = << >>
  /\ gui = NoGui

NextMute == DiagnoseCall

SpecMute == InitMute /\ [][NextMute]_vars

\* ------------------------------------------------------------------------
\* diagnose() called twice, on two unrelated extraction results
\* ------------------------------------------------------------------------

\* Opinion lists of the first call: a winner in /shot/anim.usda of any arc
\* kind, direct or not, plain or blocked; under it an opinion in
\* /shot/look.usda of any arc kind, direct or not; then weaker ones.
RECURSIVE FirstOpinionLists(_)
FirstOpinionLists(n) ==
  IF n = 0 THEN {<< >>}
  ELSE LET shorter == FirstOpinionLists(n - 1)
           longest == {t \in shorter : Len(t) = n - 1}
       IN shorter \cup
          (IF n = 1
           THEN {<< OpinionInfo(0, "/shot/anim.usda", basename("/shot/anim.usda"),
                                arc, direct, value, FALSE, IsValueBlock(value)) >> :
                   arc \in ArcStrings, direct \in BOOLEAN,
                   value \in {Some(AuthoredValue), Some(ValueBlock)}}
           ELSE IF n = 2
           THEN {Append(s, OpinionInfo(1, "/shot/look.usda",
                                       basename("/shot/look.usda"), arc, direct,
                                       Some(AuthoredValue), FALSE, FALSE)) :
                   s \in longest, arc \in ArcStrings, direct \in BOOLEAN}
           ELSE {Append(s, o) : s \in longest, o \in WeakerOpinions(n - 1)})

\* Opinion lists of the second call, in other layers and with other values:
\* a direct winner in /asset/look.usda over an ancestral opinion in
\* /shot/anim.usda that declares the attribute without a default.
SecondOpinionLists ==
  {<< OpinionInfo(0, "/asset/look.usda", basename("/asset/look.usda"), w, TRUE,
                  value, TRUE, IsValueBlock(value)),
      OpinionInfo(1, "/shot/anim.usda", basename("/shot/anim.usda"), u, FALSE,
                  None, FALSE, FALSE) >> :
     w \in {"Local", "Reference", "Unknown"},
     u \in {"Local", "Reference", "Payload"},
     value \in {Some(AuthoredValue), Some(ValueBlock)}}

InitPairs ==
  /\ pc = "diagnose_call"
  /\ args \in [layer : {"/shot/look.usda", "/shot/anim.usda", "nonexistent.usda"},
               time : {None}, stack_only : {FALSE}]
  /\ engine = NoEngine
  /\ \E opinions \in FirstOpinionLists(MaxOpinions),
        layer_muting \in {EmptyDict, [lid \in {"/shot/look.usda"} |-> TRUE]},
        prim_is_loaded \in BOOLEAN :
       extraction = Some(ExtractionResult(StagePath, PrimPath, AttrName,
                           None, None, "None", opinions, layer_muting,
                           prim_is_loaded, None))
  /\ diagnosis = None
  /\ stdout = None
  /\ returncode = None
  /\ calls = << >>
  /\ earlier = << >>
  /\ gui = NoGui

\* The caller keeps the first result and diagnoses another extraction.
DiagnoseNext ==
  /\ pc = "diagnose_return"
  /\ earlier = << >>
  /\ gui = NoGui
  /\ earlier' = Append(earlier, [extraction |-> extraction,
                                  diagnosis  |-> diagnosis,
                                  stdout     |-> stdout])
  /\ args' \in [layer : {"anim.usda", "/asset/look.usda"}, time : {None},
                stack_only : {FALSE}]
  /\ \E opinions \in SecondOpinionLists,
        layer_muting \in {EmptyDict, [lid \in {"/shot/anim.usda"} |-> TRUE]},
        prim_is_loaded \in BOOLEAN :
       extraction' = Some(ExtractionResult(StagePath, PrimPath, AttrName,
                            None, None, "None", opinions, layer_muting,
                            prim_is_loaded, None))
  /\ diagnosis' = None
  /\ calls' = << >>
  /\ pc' = "diagnose_call"
  /\ UNCHANGED << gui, engine, stdout, returncode >>

NextPairs == DiagnoseCall \/ DiagnoseNext

SpecPairs == InitPairs /\ [][NextPairs]_vars

\* ------------------------------------------------------------------------
\* usd_opinion_trace_gui.py: loading the prims of a stage in the background
\* ------------------------------------------------------------------------

\* The number of times the user loads a stage.
MaxLoads == 3

\* The stage files the user picks, and what stage.Traverse() finds in them:
\* the sorted prim paths and the sorted attribute names of each prim.
Stages == {"a.usda", "b.usda"}

StagePrims ==
  [stage \in Stages |->
     IF stage = "a.usda" THEN << "/World/Chair" >> ELSE << "/World/Table" >>]

StagePrimAttrs ==
  [stage \in Stages |->
     IF stage = "a.usda" THEN [p \in {"/World/Chair"} |-> << "size" >>]
     ELSE [p \in {"/World/Table"} |-> << "height" >>]]

\* StageLoaderThread(stage_path), started.  The state field is the thread's
\* position: "running", then "emitted" once run has emitted its signal, then
\* "delivered" or "failed" once the window has handled that signal.  The
\* overlaps field is history, not program state: it records whether the
\* previously started thread was still running when this one was created.
StageLoaderThread(stage_path, overlaps) ==
  [stage_path |-> stage_path, state |-> "running", overlaps |-> overlaps]

\* MainWindow.__init__: empty inputs, empty cache, no loader thread; no
\* thread exists and no signal is queued for the window.
MainWindow ==
  [stage_input        |-> "",
   _last_loaded_stage |-> "",
   prim_path_input    |-> << >>,
   attribute_input    |-> << >>,
   placeholder        |-> "/World/Chair",
   prim_attrs_cache   |-> EmptyDict,
   loader_thread      |-> None,
   stack_display      |-> None,
   threads            |-> << >>,
   events             |-> << >>,
   aborted            |-> FALSE]

InitGui ==
  /\ pc = "gui"
  /\ args = None
  /\ engine = NoEngine
  /\ extraction = None
  /\ diagnosis = None
  /\ stdout = None
  /\ returncode = None
  /\ calls = << >>
  /\ earlier = << >>
  /\ gui = MainWindow

\* browse_stage: the user picks an existing stage file, then
\* load_stage_contents clears the prim list, the attribute list and the
\* cache, and starts a new StageLoaderThread, whatever the previous one is
\* doing; self.loader_thread now refers to the new thread only.
load_stage_contents ==
  /\ pc = "gui"
  /\ ~gui.aborted
  /\ Len(gui.threads) < MaxLoads
  /\ \E stage_path \in Stages :
       gui' = [gui EXCEPT
                 !.stage_input        = stage_path,
                 !._last_loaded_stage = stage_path,
                 !.prim_path_input    = << >>,
                 !.attribute_input    = << >>,
                 !.prim_attrs_cache   = EmptyDict,
                 !.placeholder        = "Loading prims...",
                 !.threads            =
                    Append(@, StageLoaderThread(stage_path,
                                /\ gui.threads # << >>
                                /\ gui.threads[Len(gui.threads)].state = "running")),
                 !.loader_thread      = Some(Len(gui.threads) + 1)]
  /\ UNCHANGED << pc, args, engine, extraction, diagnosis, stdout, returncode,
                  calls, earlier >>

\* StageLoaderThread.run reaches self.finished.emit(sorted(prims),
\* prim_attrs); the window lives in the main thread, so the call of
\* on_stage_loaded is queued.
run_finished ==
  /\ pc = "gui"
  /\ ~gui.aborted
  /\ \E t \in 1..Len(gui.threads) :
       /\ gui.threads[t].state = "running"
       /\ gui' = [gui EXCEPT
                    !.threads[t].state = "emitted",
                    !.events = Append(@, [thread |-> t, signal |-> "finished"])]
  /\ UNCHANGED << pc, args, engine, extraction, diagnosis, stdout, returncode,
                  calls, earlier >>

\* StageLoaderThread.run fails to open the stage, or raises: self.error.emit.
run_error ==
  /\ pc = "gui"
  /\ ~gui.aborted
  /\ \E t \in 1..Len(gui.threads) :
       /\ gui.threads[t].state = "running"
       /\ gui' = [gui EXCEPT
                    !.threads[t].state = "emitted",
                    !.events = Append(@, [thread |-> t, signal |-> "error"])]
  /\ UNCHANGED << pc, args, engine, extraction, diagnosis, stdout, returncode,
                  calls, earlier >>

\* A thread object the window no longer refers to is released when its run
\* returns; Qt may then find a QThread destroyed while still running and
\* abort the process, the queued signals being lost.
thread_destroyed ==
  /\ pc = "gui"
  /\ ~gui.aborted
  /\ \E t \in 1..Len(gui.threads) :
       /\ gui.threads[t].state = "emitted"
       /\ gui.loader_thread # Some(t)
  /\ gui' = [gui EXCEPT !.aborted = TRUE]
  /\ UNCHANGED << pc, args, engine, extraction, diagnosis, stdout, returncode,
                  calls, earlier >>

\* on_stage_loaded(prims, prim_attrs), called from the window's event queue
\* for the oldest queued signal: the cache becomes prim_attrs, prims are added
\* to the items of the prim list, the selection is cleared (which empties the
\* attribute list through on_prim_changed) and the count is shown.
on_stage_loaded ==
  /\ pc = "gui"
  /\ ~gui.aborted
  /\ gui.events # << >>
  /\ Head(gui.events).signal = "finished"
  /\ LET t          == Head(gui.events).thread
         prims      == StagePrims[gui.threads[t].stage_path]
         prim_attrs == StagePrimAttrs[gui.threads[t].stage_path]
     IN gui' = [gui EXCEPT
                  !.prim_attrs_cache = prim_attrs,
                  !.prim_path_input  = @ \o prims,
                  !.attribute_input  = << >>,
                  !.placeholder      = "/World/Chair",
                  !.stack_display    = Some([loaded |-> Len(prims)]),
                  !.threads[t].state = "delivered",
                  !.events           = Tail(@)]
  /\ UNCHANGED << pc, args, engine, extraction, diagnosis, stdout, returncode,
                  calls, earlier >>

\* on_stage_load_error(error_msg), called from the window's event queue.
on_stage_load_error ==
  /\ pc = "gui"
  /\ ~gui.aborted
  /\ gui.events # << >>
  /\ Head(gui.events).signal = "error"
  /\ gui' = [gui EXCEPT
               !._last_loaded_stage = "",
               !.placeholder        = "/World/Chair",
               !.threads[Head(gui.events).thread].state = "failed",
               !.events             = Tail(@)]
  /\ UNCHANGED << pc, args, engine, extraction, diagnosis, stdout, returncode,
                  calls, earlier >>

NextGui ==
  \/ load_stage_contents
  \/ run_finished
  \/ run_error
  \/ thread_destroyed
  \/ on_stage_loaded
  \/ on_stage_load_error

SpecGui == InitGui /\ [][NextGui]_vars

\* ------------------------------------------------------------------------
\* Vocabulary of the properties
\* ------------------------------------------------------------------------

\* A run of diagnose has returned (alone, or as phase 2 of main).
DiagnoseReturned ==
  \/ pc = "diagnose_return"
  \/ pc \in {"diagnosed", "exit"} /\ "diagnose" \in {calls[i] : i \in 1..Len(calls)}

Ex == The(extraction)
Dx == The(diagnosis)

\* The locator names this opinion's layer, by identifier or display name.
Names(locator, o) == locator = o.layer_identifier \/ locator = o.layer_name

\* List positions (1-based) of the opinions the locator names.
MatchPositions == {i \in 1..Len(Ex.opinions) : Names(args.layer, Ex.opinions[i])}

\* The strongest opinion the locator names.
UserOpinion ==
  Ex.opinions[CHOOSE i \in MatchPositions : \A j \in MatchPositions : i <= j]

Winner == Ex.opinions[1]

\* diagnose returned for an error-free extraction in which the user's opinion
\* exists and is not the winner.
UserBelowWinner ==
  /\ DiagnoseReturned
  /\ Ex.error = None
  /\ MatchPositions # {}
  /\ 1 \notin MatchPositions

UserLayerMuted ==
  /\ UserOpinion.layer_identifier \in DOMAIN Ex.layer_muting
  /\ Ex.layer_muting[UserOpinion.layer_identifier]

\* Strength rank in Local > Inherit > Variant > Relocate > Reference >
\* Payload > Specialize.
LIVRPS ==
  << "Local", "Inherit", "Variant", "Relocate", "Reference", "Payload",
     "Specialize" >>
Rank(arc) == CHOOSE i \in 1..Len(LIVRPS) : LIVRPS[i] = arc
Stronger(a, b) ==
  /\ \E i \in 1..Len(LIVRPS) : LIVRPS[i] = a
  /\ \E i \in 1..Len(LIVRPS) : LIVRPS[i] = b
  /\ Rank(a) < Rank(b)

\* The lower-cased kind names as they appear in the arc-pair reason codes.
CodeName ==
  [arc \in {LIVRPS[i] : i \in 1..Len(LIVRPS)} |->
     CASE arc = "Local" -> "local" [] arc = "Inherit" -> "inherit"
       [] arc = "Variant" -> "variant" [] arc = "Relocate" -> "relocate"
       [] arc = "Reference" -> "reference" [] arc = "Payload" -> "payload"
       [] arc = "Specialize" -> "specialize"]

\* ------------------------------------------------------------------------
\* Properties
\* ------------------------------------------------------------------------

\* C1: for every error-free extraction and every locator, diagnose returns a
\* result whose reason is one code, and that code is a key of REASON_CODES; an
\* unregistered arc_type_<winner>_over_<user> string is never returned.
C1_ReasonIsRegistered ==
  (pc = "diagnose_return" /\ Ex.error = None) =>
     /\ IsSome(diagnosis)
     /\ Dx.reason \in DOMAIN REASON_CODES

\* C1 witness: the winner's kind is Unknown, the user's is Local, so the
\* synthesized code is unregistered, and diagnose has returned.
C1_Witness ==
  /\ pc = "diagnose_return"
  /\ Ex.error = None
  /\ UserBelowWinner
  /\ Winner.arc_type = "Unknown"
  /\ UserOpinion.arc_type = "Local"
  /\ ~UserLayerMuted /\ Ex.prim_is_loaded /\ ~Winner.is_blocked
  /\ Dx.reason = "listop_position"

\* C2: when the user's opinion is below index 0 and its layer is flagged muted,
\* the reason is layer_muted, whatever the loaded flag, the winner's block
\* marker, the arc kinds and the directness are.
C2_MutedFirst ==
  (pc = "diagnose_return" /\ UserBelowWinner /\ UserLayerMuted) =>
     Dx.reason = "layer_muted"

\* C2 witness: a muted user layer together with an unloaded prim, a blocked
\* winner and differing arc kinds.
C2_Witness ==
  /\ pc = "diagnose_return"
  /\ UserBelowWinner
  /\ UserLayerMuted
  /\ ~Ex.prim_is_loaded
  /\ Winner.is_blocked
  /\ Winner.arc_type = "Local" /\ UserOpinion.arc_type = "Reference"
  /\ Winner.is_direct /\ ~UserOpinion.is_direct
  /\ Dx.reason = "layer_muted"

\* C3: user's opinion below index 0, not muted, prim loaded, winner not
\* blocked, winner's kind strictly stronger than the user's in LIVRPS: the
\* reason is arc_type_<winner>_over_<user> in lower case, user_layer_found is
\* true and blocker_layer is the winner's layer name.
C3_ArcKindMismatch ==
  (/\ pc = "diagnose_return"
   /\ UserBelowWinner
   /\ ~UserLayerMuted
   /\ Ex.prim_is_loaded
   /\ ~Winner.is_blocked
   /\ Stronger(Winner.arc_type, UserOpinion.arc_type)) =>
     /\ Dx.reason = "arc_type_" \o CodeName[Winner.arc_type] \o "_over_"
                      \o CodeName[UserOpinion.arc_type]
     /\ Dx.user_layer_found = TRUE
     /\ Dx.blocker_layer = Some(Winner.layer_name)

\* C3 witness: winner Local over user Reference, diagnosed as
\* arc_type_local_over_reference.
C3_Witness ==
  /\ pc = "diagnose_return"
  /\ UserBelowWinner
  /\ ~UserLayerMuted /\ Ex.prim_is_loaded /\ ~Winner.is_blocked
  /\ Winner.arc_type = "Local" /\ UserOpinion.arc_type = "Reference"
  /\ Dx.reason = "arc_type_local_over_reference"
  /\ Dx.user_layer_found
  /\ Dx.blocker_layer = Some(Winner.layer_name)

\* C4: if no opinion has the locator as identifier or display name (the list
\* may be empty), the reason is no_opinion_in_user_layer, user_layer_found is
\* false and user_layer_index, blocker_index and blocker_layer are None.
C4_UserLayerAbsent ==
  (pc = "diagnose_return" /\ Ex.error = None /\ MatchPositions = {}) =>
     /\ IsSome(diagnosis)
     /\ Dx.reason = "no_opinion_in_user_layer"
     /\ Dx.user_layer_found = FALSE
     /\ Dx.user_layer_index = None
     /\ Dx.blocker_index = None
     /\ Dx.blocker_layer = None

\* C4 witness: two opinions, neither in the user's layer, a muted layer in the
\* map, the prim not loaded, the winner blocked.
C4_Witness ==
  /\ pc = "diagnose_return"
  /\ Ex.error = None
  /\ Len(Ex.opinions) = 2
  /\ MatchPositions = {}
  /\ DOMAIN Ex.layer_muting # {}
  /\ ~Ex.prim_is_loaded
  /\ Winner.is_blocked
  /\ Dx.reason = "no_opinion_in_user_layer"

\* C5: if the opinion matched for the locator is at index 0, the reason is
\* user_opinion_is_winning with user_layer_found, user_layer_index 0 and no
\* blocker, even if the layer is muted, the prim unloaded or the winner blocked.
C5_AlreadyWinning ==
  (pc = "diagnose_return" /\ Ex.error = None /\ 1 \in MatchPositions) =>
     /\ IsSome(diagnosis)
     /\ Dx.reason = "user_opinion_is_winning"
     /\ Dx.user_layer_found = TRUE
     /\ Dx.user_layer_index = Some(0)
     /\ Dx.blocker_index = None
     /\ Dx.blocker_layer = None

\* C5 witness: the index-0 opinion is the user's, its layer is muted, the prim
\* is not loaded and the opinion is a block; a weaker opinion also matches.
C5_Witness ==
  /\ pc = "diagnose_return"
  /\ Ex.error = None
  /\ MatchPositions = {1, 2}
  /\ UserLayerMuted
  /\ ~Ex.prim_is_loaded
  /\ Winner.is_blocked
  /\ Dx.reason = "user_opinion_is_winning"

\* C6: winner and user's opinion (below index 0) both Local, layer not muted,
\* prim loaded, winner not blocked: the reason is sublayer_order, blocker_index
\* is 0 and blocker_layer the index-0 layer's display name, whatever the
\* directness and time-sample flags are.
C6_SublayerOrder ==
  (/\ pc = "diagnose_return"
   /\ UserBelowWinner
   /\ ~UserLayerMuted
   /\ Ex.prim_is_loaded
   /\ ~Winner.is_blocked
   /\ Winner.arc_type = "Local"
   /\ UserOpinion.arc_type = "Local") =>
     /\ Dx.reason = "sublayer_order"
     /\ Dx.blocker_index = Some(0)
     /\ Dx.blocker_layer = Some(Ex.opinions[1].layer_name)

\* C6 witness: two Local opinions, the winner direct without time samples,
\* the user's ancestral with time samples.
C6_Witness ==
  /\ pc = "diagnose_return"
  /\ UserBelowWinner
  /\ ~UserLayerMuted /\ Ex.prim_is_loaded /\ ~Winner.is_blocked
  /\ Winner.arc_type = "Local" /\ UserOpinion.arc_type = "Local"
  /\ Winner.is_direct /\ ~UserOpinion.is_direct
  /\ ~Winner.has_timesamples /\ UserOpinion.has_timesamples
  /\ Dx.reason = "sublayer_order"
  /\ Dx.blocker_index = Some(0)

\* C7 (as stated): a blocked winner, the user's opinion below it, unmuted and
\* loaded, gives attribute_blocked and a resolved value of None.
C7_Original ==
  (/\ pc = "exit"
   /\ UserBelowWinner
   /\ ~UserLayerMuted
   /\ Ex.prim_is_loaded
   /\ Winner.is_blocked) =>
     /\ Dx.reason = "attribute_blocked"
     /\ Ex.resolved_value = None

\* C8 (as stated): on a stack of exactly one opinion, extraction fails with
\* NO_VALID_OPINIONS if and only if that opinion's own value is absent or a
\* block, for every resolved value the engine reports.
C8_SingleOpinionBoundary ==
  (pc # "start" /\ Len(engine.prop_stack) = 1) =>
     LET own == engine.prop_stack[1].default
     IN (own = None \/ IsValueBlock(own))
        <=> (IsSome(Ex.error) /\ The(Ex.error).code = "NO_VALID_OPINIONS")

\* C9: when extract_opinions returns an error, main never calls diagnose,
\* prints only an object holding the error, and returns a failure status.
C9_ErrorIsTerminal ==
  (pc # "start" /\ IsSome(Ex.error)) =>
     /\ pc = "exit"
     /\ \A i \in 1..Len(calls) : calls[i] \notin {"diagnose", "build_output"}
     /\ diagnosis = None
     /\ IsSome(stdout)
     /\ DOMAIN The(stdout) = {"error"}
     /\ The(stdout).error = The(Ex.error)
     /\ DOMAIN The(Ex.error) = {"code", "message"}
     /\ returncode = Some(1)

\* C9 witness: a full diagnosis was asked for, and the run ended on an
\* extraction error.
C9_Witness ==
  /\ pc = "exit"
  /\ ~args.stack_only
  /\ IsSome(Ex.error)
  /\ The(Ex.error).code = "NO_VALID_OPINIONS"
  /\ returncode = Some(1)

\* C10 (as stated): every extraction error carries one of CONTAINER_NOT_FOUND,
\* NODE_NOT_FOUND, ATTRIBUTE_NOT_FOUND, NO_VALID_OPINIONS.
C10_Original ==
  (pc # "start" /\ IsSome(Ex.error)) =>
     The(Ex.error).code \in {"CONTAINER_NOT_FOUND", "NODE_NOT_FOUND",
                             "ATTRIBUTE_NOT_FOUND", "NO_VALID_OPINIONS"}

\* C10 (amended): every extraction error carries one of STAGE_NOT_FOUND,
\* PRIM_NOT_FOUND, ATTR_NOT_FOUND, NO_VALID_OPINIONS: an unopenable stage
\* gives STAGE_NOT_FOUND, a missing or invalid prim PRIM_NOT_FOUND, a missing
\* attribute ATTR_NOT_FOUND.
C10_ErrorCodes ==
  pc # "start" =>
     /\ ~engine.stage_opens =>
          IsSome(Ex.error) /\ The(Ex.error).code = "STAGE_NOT_FOUND"
     /\ (engine.stage_opens /\ ~engine.prim_valid) =>
          IsSome(Ex.error) /\ The(Ex.error).code = "PRIM_NOT_FOUND"
     /\ (engine.stage_opens /\ engine.prim_valid /\ ~engine.attr_exists) =>
          IsSome(Ex.error) /\ The(Ex.error).code = "ATTR_NOT_FOUND"
     /\ IsSome(Ex.error) =>
          The(Ex.error).code \in {"STAGE_NOT_FOUND", "PRIM_NOT_FOUND",
                                  "ATTR_NOT_FOUND", "NO_VALID_OPINIONS"}

\* C10 witness: the stage opened, the prim resolved, the attribute did not.
C10_Witness ==
  /\ pc = "exit"
  /\ engine.stage_opens /\ engine.prim_valid /\ ~engine.attr_exists
  /\ The(Ex.error).code = "ATTR_NOT_FOUND"

\* C11: every result of extract_opinions has one side populated: with an
\* error the resolved value is None, the opinion list and the mute map are
\* empty and the loaded flag is false; without one it carries the engine's
\* resolved value, one opinion per spec of the engine's stack, the mute state
\* of each of their layers and the engine's loaded flag.
C11_Exclusive ==
  pc = "extract_return" =>
     IF IsSome(Ex.error)
     THEN /\ Ex.resolved_value = None
          /\ Ex.resolved_value_type = "None"
          /\ Ex.opinions = << >>
          /\ Ex.layer_muting = EmptyDict
          /\ Ex.prim_is_loaded = FALSE
     ELSE /\ engine.stage_opens /\ engine.prim_valid /\ engine.attr_exists
          /\ Ex.resolved_value = engine.resolved_value
          /\ Len(Ex.opinions) = Len(engine.prop_stack)
          /\ \A i \in 1..Len(Ex.opinions) :
               /\ Ex.opinions[i].layer_identifier = engine.prop_stack[i].layer
               /\ Ex.opinions[i].value = engine.prop_stack[i].default
          /\ DOMAIN Ex.layer_muting = LayersOf(engine.prop_stack)
          /\ \A lid \in DOMAIN Ex.layer_muting :
               Ex.layer_muting[lid] <=> lid \in engine.muted_layers
          /\ Ex.prim_is_loaded = engine.prim_is_loaded

\* C11 witness: the engine had a spec in a muted layer of a loaded prim, and
\* the extraction ended on NO_VALID_OPINIONS with nothing of it in the result.
C11_Witness ==
  /\ pc = "extract_return"
  /\ IsSome(Ex.error)
  /\ The(Ex.error).code = "NO_VALID_OPINIONS"
  /\ Len(engine.prop_stack) = 1
  /\ engine.muted_layers # {}
  /\ engine.prim_is_loaded
  /\ Ex.opinions = << >> /\ Ex.layer_muting = EmptyDict /\ ~Ex.prim_is_loaded

\* C12: in every error-free extraction the resolved value is the engine's,
\* and the arc kind of the opinion at index 0 is the arc kind of the node the
\* engine's resolve-info query names as the source of the winning value.
C12_CrossCheck ==
  (pc = "extract_return" /\ Ex.error = None) =>
     /\ Ex.resolved_value = engine.resolved_value
     /\ \A node \in GetResolveInfoNode(engine.prop_stack, args.time) :
          IsSome(node) =>
            /\ Ex.opinions # << >>
            /\ Ex.opinions[1].arc_type =
                 arc_type_to_string(The(node).arcType, engine.has_relocate)

\* C14: a non-zero status is returned exactly when extraction returned an
\* error; when extraction succeeds and a diagnosis is asked for, a user layer
\* that is not found, or a user opinion that already wins, ends the run with
\* status 0, a null error and a diagnosis carrying no_opinion_in_user_layer,
\* respectively user_opinion_is_winning.
C14_OutcomesAreNotErrors ==
  pc = "exit" =>
     /\ returncode \in {Some(0), Some(1)}
     /\ returncode = Some(1) <=> IsSome(Ex.error)
     /\ (Ex.error = None /\ ~args.stack_only) =>
          /\ The(stdout).error = None
          /\ IsSome(The(stdout).diagnosis)
          /\ MatchPositions = {} =>
               The(The(stdout).diagnosis).reason = "no_opinion_in_user_layer"
          /\ 1 \in MatchPositions =>
               The(The(stdout).diagnosis).reason = "user_opinion_is_winning"

\* C14 witness: two opinions, none in the user's layer, and the run ended
\* with status 0.
C14_Witness ==
  /\ pc = "exit"
  /\ Ex.error = None /\ ~args.stack_only
  /\ Len(Ex.opinions) = 2 /\ MatchPositions = {}
  /\ The(The(stdout).diagnosis).reason = "no_opinion_in_user_layer"
  /\ returncode = Some(0)

\* C15: with --stack-only and a successful extraction diagnose is not called
\* and the output's diagnosis is null, while every opinion of the stack is
\* listed in order; in every successful output the opinion at index 0 is
\* 'winning' and every other one 'blocked'.
C15_StackOnly ==
  (pc = "exit" /\ Ex.error = None) =>
     LET out == The(stdout).opinions
     IN /\ args.stack_only =>
             /\ \A i \in 1..Len(calls) : calls[i] # "diagnose"
             /\ diagnosis = None
             /\ The(stdout).diagnosis = None
        /\ Len(out) = Len(engine.prop_stack)
        /\ \A i \in 1..Len(out) :
             /\ out[i].index = i - 1
             /\ out[i].layer_identifier = engine.prop_stack[i].layer
             /\ out[i].value = engine.prop_stack[i].default
             /\ out[i].status = IF i = 1 THEN "winning" ELSE "blocked"
        /\ out # << >> =>
             Cardinality({i \in 1..Len(out) : out[i].status = "winning"}) = 1

\* C15 witness: --stack-only with two opinions, the weaker one in the user's
\* layer, printed without a diagnosis.
C15_Witness ==
  /\ pc = "exit"
  /\ Ex.error = None /\ args.stack_only
  /\ Len(The(stdout).opinions) = 2
  /\ MatchPositions = {2}
  /\ The(stdout).diagnosis = None
  /\ The(stdout).opinions[2].status = "blocked"

C17_IndexInvariant ==
  (pc # "start" /\ Ex.error = None) =>
     LET stack == engine.prop_stack
         InOrder(ops) ==
           /\ Len(ops) = Len(stack)
           /\ \A i \in 1..Len(ops) :
                /\ ops[i].index = i - 1
                /\ ops[i].layer_identifier = stack[i].layer
                /\ ops[i].value = stack[i].default
                /\ ops[i].has_timesamples = stack[i].timeSamples
                /\ ops[i].arc_type = get_arc_type_for_spec(engine, stack[i])
     IN /\ InOrder(Ex.opinions)
        /\ pc = "exit" => InOrder(The(stdout).opinions)

\* C17 witness: a diagnosed and printed run over two specs of different
\* layers and arc kinds, the user's being the weaker one.
C17_Witness ==
  /\ pc = "exit"
  /\ Ex.error = None
  /\ "diagnose" \in {calls[i] : i \in 1..Len(calls)}
  /\ Len(engine.prop_stack) = 2
  /\ engine.prop_stack[1].layer # engine.prop_stack[2].layer
  /\ Ex.opinions[1].arc_type = "Local" /\ Ex.opinions[2].arc_type = "Reference"
  /\ MatchPositions = {2}
  /\ The(stdout).opinions[2].index = 1

\* C20: when the user's opinion is below index 0, its layer is not muted and
\* the prim is not loaded, diagnose returns payload_not_loaded, whatever the
\* winner's block marker and the arc kinds and directness of the two opinions.
C20_UnloadedBeforeBlockAndArcs ==
  (/\ UserBelowWinner
   /\ ~UserLayerMuted
   /\ ~Ex.prim_is_loaded) =>
     /\ Dx.reason = "payload_not_loaded"
     /\ Dx.user_layer_found
     /\ Dx.blocker_index = Some(0)

\* C20 witness: an unloaded prim, a blocked Local winner over the user's
\* Reference opinion, neither of kind Payload, diagnosed payload_not_loaded.
C20_Witness ==
  /\ pc = "diagnose_return"
  /\ UserBelowWinner
  /\ ~UserLayerMuted /\ ~Ex.prim_is_loaded
  /\ Winner.is_blocked
  /\ Winner.arc_type = "Local" /\ UserOpinion.arc_type = "Reference"
  /\ Winner.is_direct /\ ~UserOpinion.is_direct
  /\ Dx.reason = "payload_not_loaded"

\* C18: for a reason-code string that is not a key of REASON_CODES,
\* get_reason_detail returns the empty string, get_suggestions the empty
\* list, and get_arc_descriptions, get_detail and get_scenarios their empty
\* values.
C18_UnregisteredLookups ==
  (pc = "lookup_return" /\ args.reason_code \notin DOMAIN REASON_CODES) =>
     /\ IsSome(stdout)
     /\ The(stdout).reason_detail = ""
     /\ The(stdout).suggestions = << >>
     /\ The(stdout).arc_descriptions = << >>
     /\ The(stdout).detail = ""
     /\ The(stdout).scenarios = << >>

\* C18 witness: the lookups have returned for arc_type_unknown_over_local,
\* a string _check_arc_types can synthesize and the registry does not hold.
C18_Witness ==
  /\ pc = "lookup_return"
  /\ args.reason_code = "arc_type_unknown_over_local"
  /\ args.reason_code \notin DOMAIN REASON_CODES
  /\ The(stdout).reason_detail = ""

\* C19: diagnose leaves every field of the ExtractionResult it was given
\* unchanged, building the output changes neither the extraction nor the
\* diagnosis, and a later run of the pipeline changes nothing of what an
\* earlier run returned.
C19_ReadOnly ==
  [][/\ pc = "extracted" => extraction' = extraction
     /\ pc = "diagnosed" => (extraction' = extraction /\ diagnosis' = diagnosis)
     /\ Len(earlier') >= Len(earlier)
     /\ \A i \in 1..Len(earlier) : earlier'[i] = earlier[i]
     /\ pc = "exit" =>
          /\ earlier'[Len(earlier')].extraction = extraction
          /\ earlier'[Len(earlier')].diagnosis = diagnosis]_vars

\* C19 witness: a second run has been diagnosed and printed, over another
\* stack than the first, whose diagnosed results the caller still holds.
C19_Witness ==
  /\ pc = "exit"
  /\ Len(earlier) = 1
  /\ IsSome(earlier[1].diagnosis)
  /\ IsSome(diagnosis)
  /\ Len(The(earlier[1].extraction).opinions) = 2
  /\ Len(Ex.opinions) = 2
  /\ earlier[1].extraction # extraction
  /\ earlier[1].diagnosis # diagnosis

\* C21: user's opinion below index 0, not muted, prim loaded, winner not
\* blocked, the two arc kinds different, and the winner's kind not stronger
\* than the user's in LIVRPS (it is weaker, or one of the two is outside the
\* seven): the synthesized pair is unregistered and diagnose returns a result
\* with reason listop_position and blocker_index 0.
C21_UnregisteredPairFallback ==
  (/\ pc = "diagnose_return"
   /\ UserBelowWinner
   /\ ~UserLayerMuted
   /\ Ex.prim_is_loaded
   /\ ~Winner.is_blocked
   /\ Winner.arc_type # UserOpinion.arc_type
   /\ ~Stronger(Winner.arc_type, UserOpinion.arc_type)) =>
     /\ ~IsRegistered("arc_type_" \o lower(Winner.arc_type) \o "_over_"
                        \o lower(UserOpinion.arc_type))
     /\ IsSome(diagnosis)
     /\ Dx.reason = "listop_position"
     /\ Dx.reason \in DOMAIN REASON_CODES
     /\ Dx.blocker_index = Some(0)

\* C21 witness: the winner is a Local opinion and the user's kind is Unknown,
\* outside the seven; the winner is direct, so only the fallback keeps the
\* reason from being sublayer_order.
C21_Witness ==
  /\ pc = "diagnose_return"
  /\ UserBelowWinner
  /\ ~UserLayerMuted /\ Ex.prim_is_loaded /\ ~Winner.is_blocked
  /\ Winner.arc_type = "Local" /\ UserOpinion.arc_type = "Unknown"
  /\ Dx.reason = "listop_position"
  /\ Dx.blocker_index = Some(0)

\* C22: user's opinion below index 0, not muted, prim loaded, winner not
\* blocked.  With equal arc kinds the reason is sublayer_order when the kind is
\* Local, else direct_over_ancestral exactly when the winner is direct and the
\* user's opinion ancestral, else listop_position; with different arc kinds
\* the reason is never direct_over_ancestral.
C22_SecondaryOrdering ==
  (/\ pc = "diagnose_return"
   /\ UserBelowWinner
   /\ ~UserLayerMuted
   /\ Ex.prim_is_loaded
   /\ ~Winner.is_blocked) =>
     /\ Winner.arc_type = UserOpinion.arc_type =>
          Dx.reason =
            IF Winner.arc_type = "Local" THEN "sublayer_order"
            ELSE IF Winner.is_direct /\ ~UserOpinion.is_direct
                 THEN "direct_over_ancestral"
                 ELSE "listop_position"
     /\ Dx.reason = "direct_over_ancestral" =>
          /\ Winner.arc_type = UserOpinion.arc_type
          /\ Winner.arc_type # "Local"

\* C22 witness: two Reference opinions, both ancestral, diagnosed as
\* listop_position.
C22_Witness ==
  /\ pc = "diagnose_return"
  /\ UserBelowWinner
  /\ ~UserLayerMuted /\ Ex.prim_is_loaded /\ ~Winner.is_blocked
  /\ Winner.arc_type = "Reference" /\ UserOpinion.arc_type = "Reference"
  /\ ~Winner.is_direct /\ ~UserOpinion.is_direct
  /\ Dx.reason = "listop_position"

\* C23: in every DiagnosisResult, blocker_index and blocker_layer are set
\* exactly when the reason is neither no_opinion_in_user_layer nor
\* user_opinion_is_winning; when set, blocker_index is 0, blocker_layer is the
\* display name of the opinion at index 0, user_layer_found is true and
\* user_layer_index is the index, greater than 0, of the matched opinion.
C23_BlockerIdentity ==
  (pc = "diagnose_return" /\ IsSome(diagnosis)) =>
     LET populated ==
           Dx.reason \notin {"no_opinion_in_user_layer", "user_opinion_is_winning"}
     IN /\ IsSome(Dx.blocker_index) <=> populated
        /\ IsSome(Dx.blocker_layer) <=> populated
        /\ populated =>
             /\ Dx.blocker_index = Some(0)
             /\ Dx.blocker_layer = Some(Ex.opinions[1].layer_name)
             /\ Dx.user_layer_found = TRUE
             /\ MatchPositions # {}
             /\ Dx.user_layer_index = Some(UserOpinion.index)
             /\ UserOpinion.index > 0
             /\ Dx.user_layer_index # Dx.blocker_index

\* C23 witness: a result with a blocker (the user's opinion at index 1 under a
\* winner of another layer), the user's layer also being the muted one.
C23_Witness ==
  /\ pc = "diagnose_return"
  /\ IsSome(diagnosis)
  /\ UserBelowWinner
  /\ Dx.reason = "layer_muted"
  /\ Dx.blocker_index = Some(0)
  /\ Dx.blocker_layer = Some("anim.usda")
  /\ Dx.user_layer_index = Some(1)

\* C24: the first failing step of stage, prim, attribute decides the error of
\* extract_opinions: a stage that does not open gives STAGE_NOT_FOUND; an open
\* stage without the prim gives PRIM_NOT_FOUND, the attribute being missing
\* too or not; a valid prim without the attribute gives ATTR_NOT_FOUND; and
\* NO_VALID_OPINIONS is reported only when all three resolved.
C24_FirstFailingStep ==
  pc = "extract_return" =>
     /\ ~engine.stage_opens =>
          /\ IsSome(Ex.error) /\ The(Ex.error).code = "STAGE_NOT_FOUND"
     /\ (engine.stage_opens /\ ~engine.prim_valid) =>
          /\ IsSome(Ex.error) /\ The(Ex.error).code = "PRIM_NOT_FOUND"
     /\ (engine.stage_opens /\ engine.prim_valid /\ ~engine.attr_exists) =>
          /\ IsSome(Ex.error) /\ The(Ex.error).code = "ATTR_NOT_FOUND"
     /\ (IsSome(Ex.error) /\ The(Ex.error).code = "NO_VALID_OPINIONS") =>
          engine.stage_opens /\ engine.prim_valid /\ engine.attr_exists

\* C24 witness: the stage opens, the prim is missing and so is the attribute;
\* the error is PRIM_NOT_FOUND.
C24_Witness ==
  /\ pc = "extract_return"
  /\ engine.stage_opens /\ ~engine.prim_valid /\ ~engine.attr_exists
  /\ IsSome(Ex.error)
  /\ The(Ex.error).code = "PRIM_NOT_FOUND"

\* C25 (as stated): an attribute that resolved with an empty property stack
\* and no resolved value fails extraction with NO_VALID_OPINIONS.
C25_NoOpinionsIsError ==
  (/\ pc = "extract_return"
   /\ engine.stage_opens /\ engine.prim_valid /\ engine.attr_exists
   /\ engine.prop_stack = << >>
   /\ engine.resolved_value = None) =>
     /\ IsSome(Ex.error)
     /\ The(Ex.error).code = "NO_VALID_OPINIONS"

\* C26 (as stated): in an error-free extraction, every opinion whose spec has
\* a providing node carries that node's arc kind, and its is_direct is false
\* exactly when that node is ancestral.
C26_FromIntroducingNode ==
  (pc = "extract_return" /\ Ex.error = None) =>
     \A i \in 1..Len(engine.prop_stack) :
        LET node == engine.prop_stack[i].node
        IN IsSome(node) =>
             /\ Ex.opinions[i].arc_type =
                  arc_type_to_string(The(node).arcType, engine.has_relocate)
             /\ Ex.opinions[i].is_direct = ~The(node).is_ancestral

\* C27: for an error-free extraction, the opinion diagnose matches is the one
\* at the smallest position whose layer identifier or display name equals the
\* locator: user_layer_found tells whether there is one, user_layer_index is
\* that smallest index, and the reason is user_opinion_is_winning exactly when
\* the opinion at index 0 is named by the locator.
C27_StrongestMatch ==
  (pc = "diagnose_return" /\ Ex.error = None) =>
     /\ IsSome(diagnosis)
     /\ Dx.user_layer_found <=> MatchPositions # {}
     /\ MatchPositions # {} =>
          \E i \in MatchPositions :
             /\ \A j \in MatchPositions : i <= j
             /\ Dx.user_layer_index = Some(i - 1)
             /\ Ex.opinions[i].index = i - 1
     /\ Dx.reason = "user_opinion_is_winning" <=> 1 \in MatchPositions

\* C27 witness: the locator is a display name shared by two layers, both
\* contribute an opinion, and the one at index 0 is the match.
C27_Witness ==
  /\ pc = "diagnose_return"
  /\ Ex.error = None
  /\ args.layer = "look.usda"
  /\ MatchPositions = {1, 2}
  /\ Ex.opinions[1].layer_identifier # Ex.opinions[2].layer_identifier
  /\ Dx.user_layer_index = Some(0)
  /\ Dx.reason = "user_opinion_is_winning"

\* C28: for an error-free extraction the reason is layer_muted exactly when
\* the user's opinion is found below index 0 and the mute map holds True for
\* the full identifier of that matched (lowest-index) opinion; an identifier
\* absent from the map or mapped to False is unmuted, and neither a muted
\* winner nor a muted layer that only shares the display name gives
\* layer_muted.
C28_MuteOfMatchedLayerOnly ==
  (pc = "diagnose_return" /\ Ex.error = None) =>
     (Dx.reason = "layer_muted" <=> (UserBelowWinner /\ UserLayerMuted))

\* C28 witness: the locator is the display name look.usda, matched at index 1
\* by /shot/look.usda, which the map holds as False; the winner's layer and
\* /asset/look.usda, which shares the display name, are muted; the reason is
\* not layer_muted.
C28_Witness ==
  /\ pc = "diagnose_return"
  /\ Ex.error = None
  /\ args.layer = "look.usda"
  /\ UserBelowWinner
  /\ UserOpinion.layer_identifier = "/shot/look.usda"
  /\ DOMAIN Ex.layer_muting = LayerIds
  /\ Ex.layer_muting["/shot/look.usda"] = FALSE
  /\ Ex.layer_muting[Winner.layer_identifier] = TRUE
  /\ Ex.layer_muting["/asset/look.usda"] = TRUE
  /\ Dx.reason # "layer_muted"

\* A suggestion string built from a scenario of the reason's registry entry.
IsScenarioSuggestion(suggestion, reason) ==
  \E k \in DOMAIN REASON_CODES[reason]["scenarios"] :
     LET scenario == REASON_CODES[reason]["scenarios"][k]
     IN /\ scenario.condition # ""
        /\ scenario.action # ""
        /\ suggestion = "If you want " \o scenario.condition \o ": "
                          \o scenario.action

\* C29: two DiagnosisResults with the same reason, obtained from different
\* layers and values, have the same reason_detail and the same suggestions;
\* every result has a non-empty reason_detail, and its suggestions are
\* non-empty unless the reason is user_opinion_is_winning, each of the form
\* "If you want <condition>: <action>".
C29_KeyedByReasonAlone ==
  (pc = "diagnose_return" /\ IsSome(diagnosis)) =>
     /\ Dx.reason_detail # ""
     /\ Dx.suggestions = << >> <=> Dx.reason = "user_opinion_is_winning"
     /\ \A k \in 1..Len(Dx.suggestions) :
          IsScenarioSuggestion(Dx.suggestions[k], Dx.reason)
     /\ \A e \in 1..Len(earlier) :
          (/\ IsSome(earlier[e].diagnosis)
           /\ The(earlier[e].diagnosis).reason = Dx.reason) =>
             /\ The(earlier[e].diagnosis).reason_detail = Dx.reason_detail
             /\ The(earlier[e].diagnosis).suggestions = Dx.suggestions

\* C29 witness: two results with the reason arc_type_local_over_reference,
\* from winners in different layers, the second user's opinion valueless.
C29_Witness ==
  /\ pc = "diagnose_return"
  /\ Len(earlier) = 1
  /\ IsSome(diagnosis)
  /\ IsSome(earlier[1].diagnosis)
  /\ Dx.reason = "arc_type_local_over_reference"
  /\ The(earlier[1].diagnosis).reason = Dx.reason
  /\ The(earlier[1].diagnosis).blocker_layer # Dx.blocker_layer
  /\ The(earlier[1].extraction).opinions[2].value # Ex.opinions[2].value
  /\ The(earlier[1].diagnosis).reason_detail = Dx.reason_detail
  /\ Len(Dx.suggestions) = 3

\* C30 (as stated): the load of one stage is started, then the load of
\* another stage while the first loader thread is still running; once both
\* threads have delivered their prims, the prim list and the cache hold the
\* second stage's entries only.
C30_LatestLoadOnly ==
  (/\ pc = "gui"
   /\ ~gui.aborted
   /\ Len(gui.threads) = 2
   /\ gui.threads[1].stage_path # gui.threads[2].stage_path
   /\ gui.threads[2].overlaps
   /\ gui.threads[1].state = "delivered"
   /\ gui.threads[2].state = "delivered") =>
     /\ gui.prim_path_input = StagePrims[gui.threads[2].stage_path]
     /\ gui.prim_attrs_cache = StagePrimAttrs[gui.threads[2].stage_path]

====
